---- MODULE Spec2Model ----
(***************************************************************************)
(* Next-best-action decisioning and SMS thread batching of the academy     *)
(* outreach backend (backend/app).  The persisted tables are the state;    *)
(* every request handler, django-q task and service function is an action  *)
(* or an operator translated from its Python source.                       *)
(*                                                                         *)
(* Time is counted in minutes.  Q-values, rewards and cumulative rewards   *)
(* are fixed-point integers in units of 1/QScale.  Python's None is the    *)
(* string "None" (NoTime for an absent datetime, 0 for an absent row id).  *)
(***************************************************************************)
EXTENDS Integers, Sequences, FiniteSets, TLC

VARIABLES
    leads,          \* Lead rows: status and attempt counters, keyed by lead id
    interactions,   \* Interaction rows, id = index
    events,         \* Event rows (append-only log), per lead
    artifacts,      \* ContextArtifact rows
    decisions,      \* NBADecision rows, id = index
    scheduled,      \* ScheduledAction rows
    qtable,         \* QValue rows, keyed by <<state, action>>
    transitions,    \* StateTransition rows (append-only log)
    smsBuffer,      \* SMSBuffer rows, id = index
    checkTasks,     \* queued check_sms_flush tasks per lead (django-q broker)
    now,            \* wall clock, minutes
    procs,          \* request / worker threads: position and local variables
    patches,        \* operator status edits made so far
    lostTasks,      \* deferred rechecks the broker has lost so far
    flushLog,       \* history: one entry per flush that built a transcript
    pipelineLog,    \* history: one entry per process_interaction call
    rl              \* one call of a policy function: its arguments and its result

vars == << leads, interactions, events, artifacts, decisions, scheduled,
           qtable, transitions, smsBuffer, checkTasks, now, procs,
           patches, lostTasks, flushLog, pipelineLog, rl >>

dbVars == << leads, interactions, events, artifacts, decisions, scheduled,
             qtable, transitions, smsBuffer >>

None == "None"
NoTime == 0 - 1
NoState == << >>    \* a null rl_state or rl_q_value (a value v is << v >>)

\* ─── Bounds of the model ────────────────────────────────────────────────
MaxInteractions == 1    \* interactions submitted through the API
MaxDecisions == 2       \* decisions persisted
MaxPatches == 1         \* operator status edits
MaxQUpdates == 3        \* reward updates applied
MaxMessages == 2        \* SMS rows received
MaxTime == 21           \* last minute of the wall clock
MaxLostTasks == 2       \* deferred rechecks the broker may lose
MaxBurst == 6           \* SMS rows received in a burst
MaxEnrichments == 2     \* extractions persisted as context artifacts
MaxDerivations == 4     \* interactions whose outcome is applied to one lead's status

Leads == {"l1", "l2"}
Procs == {"p1", "p2"}

\* ─── Vocabulary of the source ───────────────────────────────────────────
Statuses == {"new", "contacted", "interested", "trial", "enrolled",
             "active", "at_risk", "inactive", "declined", "unresponsive"}
Channels == {"voice", "sms", "email"}
InteractionStatuses == {"completed", "no_answer", "voicemail", "failed", "opted_out"}
Intents == {"interested", "considering", "objecting", "scheduling",
            "requesting_info", "declining", "no_response", "unclear"}
Sentiments == {"positive", "neutral", "negative"}

MAX_ATTEMPTS_PER_CHANNEL == 3
COOLDOWN_HOURS_AFTER_NO_RESPONSE == 24
ESCALATION_AFTER_FAILED_ATTEMPTS == 5

\* Contact methods of the two leads (Lead.phone, Lead.email,
\* Lead.preferred_channel): l1 has a phone only and no preference, l2 has
\* both and prefers sms.
HasPhone(l) == TRUE
HasEmail(l) == l = "l2"
PreferredChannel(l) == IF l = "l2" THEN "sms" ELSE None

\* ─── nba_engine.py: policy inputs ───────────────────────────────────────
ConcernOrder(level) ==
    CASE level = "low" -> 1
      [] level = "moderate" -> 2
      [] level = "high" -> 3
      [] OTHER -> 0

\* The highest concern level over a set of financial artifacts ("none" if
\* the set is empty): the loop keeps a level only when it is strictly
\* higher than the one kept so far.
MaxConcern(rows) ==
    IF rows = {} THEN "none"
    ELSE LET best == CHOOSE r \in rows :
                        \A o \in rows : ConcernOrder(r.concern_level) >= ConcernOrder(o.concern_level)
         IN IF ConcernOrder(best.concern_level) > 0 THEN best.concern_level ELSE "none"

\* _load_enriched_context: merges the lead's CURRENT artifacts only.
load_enriched_context(arts, l) ==
    LET cur(t) == { arts[i] : i \in { j \in DOMAIN arts :
                        /\ arts[j].lead = l
                        /\ arts[j].is_current
                        /\ arts[j].artifact_type = t } }
    IN [ financial_concern_level |-> MaxConcern(cur("financial_signals")),
         objection_topics |-> UNION { r.topics : r \in cur("objections") },
         has_unaddressed_objections |-> \E r \in cur("objections") : r.topics # {},
         has_scheduling_constraints |-> \E r \in cur("scheduling_constraints") : r.constraints,
         has_siblings |-> \E r \in cur("family_context") : r.siblings,
         has_pending_decision_makers |-> \E r \in cur("family_context") : r.decision_makers ]

\* A build that forgets a financial concern once the last interaction is
\* more than a day old.
build_policy_inputs_aged(lead, l, ints, last, hours, arts) ==
    LET enriched == load_enriched_context(arts, l)
        li(f) == IF last = 0 THEN None ELSE ints[last][f]
    IN [ lead_status |-> lead.status,
         total_interactions |-> lead.total_interactions,
         total_voice_attempts |-> lead.total_voice_attempts,
         total_sms_attempts |-> lead.total_sms_attempts,
         total_email_attempts |-> lead.total_email_attempts,
         last_interaction_channel |-> li("channel"),
         last_interaction_status |-> li("status"),
         last_interaction_direction |-> li("direction"),
         last_detected_intent |-> li("detected_intent"),
         last_sentiment |-> li("sentiment"),
         hours_since_last_interaction |-> IF last = 0 THEN NoTime ELSE hours,
         preferred_channel |-> PreferredChannel(l),
         has_phone |-> HasPhone(l),
         has_email |-> HasEmail(l),
         financial_concern_level |->
             IF last # 0 /\ hours > 24 THEN "none" ELSE enriched.financial_concern_level,
         has_unaddressed_objections |-> enriched.has_unaddressed_objections,
         objection_topics |-> enriched.objection_topics,
         has_scheduling_constraints |-> enriched.has_scheduling_constraints,
         has_siblings |-> enriched.has_siblings,
         has_pending_decision_makers |-> enriched.has_pending_decision_makers ]

\* _build_policy_inputs.  last = 0 stands for "no interaction";
\* hours is the time since the last interaction (NoTime when there is none).
build_policy_inputs(lead, l, ints, last, hours, arts) ==
    LET enriched == load_enriched_context(arts, l)
        li(f) == IF last = 0 THEN None ELSE ints[last][f]
    IN [ lead_status |-> lead.status,
         total_interactions |-> lead.total_interactions,
         total_voice_attempts |-> lead.total_voice_attempts,
         total_sms_attempts |-> lead.total_sms_attempts,
         total_email_attempts |-> lead.total_email_attempts,
         last_interaction_channel |-> li("channel"),
         last_interaction_status |-> li("status"),
         last_interaction_direction |-> li("direction"),
         last_detected_intent |-> li("detected_intent"),
         last_sentiment |-> li("sentiment"),
         hours_since_last_interaction |-> IF last = 0 THEN NoTime ELSE hours,
         preferred_channel |-> PreferredChannel(l),
         has_phone |-> HasPhone(l),
         has_email |-> HasEmail(l),
         financial_concern_level |-> enriched.financial_concern_level,
         has_unaddressed_objections |-> enriched.has_unaddressed_objections,
         objection_topics |-> enriched.objection_topics,
         has_scheduling_constraints |-> enriched.has_scheduling_constraints,
         has_siblings |-> enriched.has_siblings,
         has_pending_decision_makers |-> enriched.has_pending_decision_makers ]

\* ─── nba_engine.py: the rules ───────────────────────────────────────────
\* NBAResult: scheduled_for is the delay in minutes from now, NoTime = None.
NBAResult(action, channel, priority, rule_name, scheduled_for) ==
    [ action |-> action, channel |-> channel, priority |-> priority,
      rule_name |-> rule_name, scheduled_for |-> scheduled_for ]

NoMatch == NBAResult(None, None, None, None, NoTime)

OrElse(x, d) == IF x = None THEN d ELSE x
CallOr(channel) == IF channel = "voice" THEN "call" ELSE channel
SmsFirst(inputs) ==
    IF inputs.has_phone THEN "sms" ELSE IF inputs.has_email THEN "email" ELSE "voice"

rule_terminal_state(inputs) ==
    IF inputs.lead_status = "declined"
    THEN NBAResult("no_action", None, "low", "terminal_state", NoTime)
    ELSE NoMatch

rule_opted_out(inputs) ==
    IF inputs.last_interaction_status = "opted_out"
    THEN NBAResult("no_action", None, "low", "opted_out", NoTime)
    ELSE NoMatch

rule_inbound_interest(inputs) ==
    IF /\ inputs.last_interaction_direction = "inbound"
       /\ inputs.last_detected_intent \in {"interested", "scheduling"}
    THEN NBAResult("call", OrElse(inputs.preferred_channel, "voice"), "urgent",
                   "inbound_interest", 60)
    ELSE NoMatch

rule_scheduling_request(inputs) ==
    IF inputs.last_detected_intent = "scheduling"
    THEN NBAResult("schedule_visit", "voice", "urgent", "scheduling_request", 30)
    ELSE NoMatch

rule_requesting_info(inputs) ==
    IF inputs.last_detected_intent = "requesting_info"
    THEN NBAResult("sms", SmsFirst(inputs), "high", "requesting_info", 120)
    ELSE NoMatch

rule_at_risk_reengagement(inputs) ==
    IF inputs.lead_status = "at_risk"
    THEN LET channel == OrElse(inputs.preferred_channel, "voice")
         IN NBAResult(CallOr(channel), channel, "high", "at_risk_reengagement", 240)
    ELSE NoMatch

\* hours_since_last_interaction or 0: None counts as 0 hours.
rule_inactive_winback(inputs) ==
    IF inputs.lead_status = "inactive"
    THEN LET hours_gap == IF inputs.hours_since_last_interaction = NoTime
                          THEN 0 ELSE inputs.hours_since_last_interaction
         IN IF hours_gap > 168
            THEN NBAResult("sms", SmsFirst(inputs), "normal", "inactive_winback", 720)
            ELSE NBAResult("wait", None, "low", "inactive_cooldown", 4320)
    ELSE NoMatch

\* hours_since_last_interaction or 999: None and 0 count as 999 hours.
rule_active_checkin(inputs) ==
    IF inputs.lead_status = "active"
    THEN LET hours_gap == IF inputs.hours_since_last_interaction \in {NoTime, 0}
                          THEN 999 ELSE inputs.hours_since_last_interaction
         IN IF hours_gap > 168
            THEN NBAResult("sms", "sms", "low", "active_checkin", 2880)
            ELSE NBAResult("no_action", None, "low", "active_healthy", NoTime)
    ELSE NoMatch

rule_enrolled_welcome(inputs) ==
    IF inputs.lead_status = "enrolled"
    THEN NBAResult("sms", OrElse(inputs.preferred_channel, "sms"), "high",
                   "enrolled_welcome", 120)
    ELSE NoMatch

rule_financial_concern(inputs) ==
    IF /\ inputs.financial_concern_level \in {"moderate", "high"}
       /\ inputs.last_detected_intent \notin {"declining", "objecting"}
    THEN NBAResult("sms", SmsFirst(inputs),
                   IF inputs.financial_concern_level = "high" THEN "high" ELSE "normal",
                   "financial_concern_outreach", 240)
    ELSE NoMatch

rule_unaddressed_objection(inputs) ==
    IF /\ inputs.has_unaddressed_objections
       /\ inputs.last_detected_intent \notin {"interested", "scheduling", "declining"}
       /\ "cost" \notin inputs.objection_topics
    THEN NBAResult("sms", SmsFirst(inputs), "normal", "address_objections", 720)
    ELSE NoMatch

rule_pending_decision_maker(inputs) ==
    IF /\ inputs.has_pending_decision_makers
       /\ inputs.last_detected_intent \in {"considering", "interested"}
       /\ inputs.total_interactions >= 2
    THEN NBAResult("call", "voice", "normal", "engage_decision_maker", 1440)
    ELSE NoMatch

rule_sibling_opportunity(inputs) ==
    IF /\ inputs.has_siblings
       /\ inputs.last_detected_intent \in {"interested", "scheduling"}
       /\ inputs.last_sentiment = "positive"
    THEN NBAResult("call", "voice", "normal", "sibling_opportunity", 240)
    ELSE NoMatch

rule_positive_engagement(inputs) ==
    IF inputs.last_detected_intent = "interested" /\ inputs.last_sentiment = "positive"
    THEN NBAResult("call", "voice", "high", "positive_engagement", 240)
    ELSE NoMatch

rule_considering(inputs) ==
    IF inputs.last_detected_intent = "considering"
    THEN NBAResult("sms", "sms", "normal", "considering_nudge", 1440)
    ELSE NoMatch

rule_objecting(inputs) ==
    IF /\ inputs.last_detected_intent \in {"objecting", "declining"}
       /\ inputs.last_sentiment = "negative"
    THEN IF inputs.total_interactions >= ESCALATION_AFTER_FAILED_ATTEMPTS
         THEN NBAResult("no_action", None, "low", "objection_terminal", NoTime)
         ELSE NBAResult("sms", "sms", "low", "objection_soft_follow_up", 2880)
    ELSE NoMatch

rule_channel_escalation(inputs) ==
    LET max_per_channel == MAX_ATTEMPTS_PER_CHANNEL
        fromSms ==
            IF /\ inputs.total_sms_attempts >= max_per_channel
               /\ inputs.last_interaction_channel = "sms"
               /\ inputs.has_phone
               /\ inputs.total_voice_attempts < max_per_channel
            THEN NBAResult("call", "voice", "normal", "channel_escalation_to_voice", 720)
            ELSE NoMatch
    IN IF /\ inputs.total_voice_attempts >= max_per_channel
          /\ inputs.last_interaction_channel = "voice"
       THEN IF inputs.has_phone /\ inputs.total_sms_attempts < max_per_channel
            THEN NBAResult("sms", "sms", "normal", "channel_escalation_to_sms", 720)
            ELSE IF inputs.has_email /\ inputs.total_email_attempts < max_per_channel
                 THEN NBAResult("email", "email", "normal", "channel_escalation_to_email", 1440)
                 ELSE fromSms
       ELSE fromSms

rule_voicemail_follow_up(inputs) ==
    IF inputs.last_interaction_status = "voicemail"
    THEN NBAResult("sms", "sms", "normal", "voicemail_sms_follow_up", 240)
    ELSE NoMatch

rule_no_answer_retry(inputs) ==
    IF inputs.last_interaction_status = "no_answer"
    THEN LET channel == OrElse(inputs.last_interaction_channel, "voice")
         IN NBAResult(CallOr(channel), channel, "normal", "no_answer_retry",
                      COOLDOWN_HOURS_AFTER_NO_RESPONSE * 60)
    ELSE NoMatch

rule_cool_down(inputs) ==
    IF /\ inputs.hours_since_last_interaction # NoTime
       /\ inputs.hours_since_last_interaction < 4
    THEN NBAResult("wait", None, "low", "cool_down", 240)
    ELSE NoMatch

rule_new_lead(inputs) ==
    IF inputs.lead_status = "new" /\ inputs.total_interactions = 0
    THEN LET channel == OrElse(inputs.preferred_channel,
                               IF inputs.has_phone THEN "voice" ELSE "sms")
         IN NBAResult(CallOr(channel), channel, "high", "new_lead_initial_outreach", 60)
    ELSE NoMatch

rule_default(inputs) ==
    LET channel == OrElse(inputs.preferred_channel, "voice")
    IN NBAResult(CallOr(channel), channel, "normal", "default_follow_up", 1440)

\* _evaluate_rules: the rules in priority order, first match wins.
RECURSIVE FirstMatch(_)
FirstMatch(results) ==
    IF results = << >>
    THEN NBAResult("no_action", None, "low", "fallback", NoTime)
    ELSE IF Head(results) # NoMatch THEN Head(results) ELSE FirstMatch(Tail(results))

evaluate_rules(inputs) ==
    FirstMatch(<< rule_terminal_state(inputs),
                  rule_opted_out(inputs),
                  rule_inbound_interest(inputs),
                  rule_scheduling_request(inputs),
                  rule_requesting_info(inputs),
                  rule_at_risk_reengagement(inputs),
                  rule_inactive_winback(inputs),
                  rule_active_checkin(inputs),
                  rule_enrolled_welcome(inputs),
                  rule_financial_concern(inputs),
                  rule_unaddressed_objection(inputs),
                  rule_pending_decision_maker(inputs),
                  rule_sibling_opportunity(inputs),
                  rule_positive_engagement(inputs),
                  rule_considering(inputs),
                  rule_objecting(inputs),
                  rule_channel_escalation(inputs),
                  rule_voicemail_follow_up(inputs),
                  rule_no_answer_retry(inputs),
                  rule_cool_down(inputs),
                  rule_new_lead(inputs),
                  rule_default(inputs) >>)

\* The interaction compute_nba falls back to when it is given none: the
\* lead's latest by created_at (ids are handed out in creation order).
LatestInteraction(ints, l) ==
    LET mine == { i \in DOMAIN ints : ints[i].lead = l }
    IN IF mine = {} THEN 0 ELSE CHOOSE i \in mine : \A j \in mine : j <= i

\* compute_nba: returns (NBAResult, PolicyInputs).
compute_nba(lead, l, ints, latest_interaction, hours, arts) ==
    LET last == IF latest_interaction # 0 THEN latest_interaction
                ELSE LatestInteraction(ints, l)
        inputs == build_policy_inputs(lead, l, ints, last, hours, arts)
    IN << evaluate_rules(inputs), inputs >>

\* ─── interaction_processor.py: lead status derivation ───────────────────
derive_retention_status(current_status, intent, interaction_status) ==
    IF intent = "declining" THEN "inactive"
    ELSE IF intent \in {"interested", "scheduling", "attending"} THEN "active"
    ELSE IF intent \in {"considering", "requesting_info"}
         THEN IF current_status = "inactive" THEN "at_risk" ELSE current_status
    ELSE IF intent = "objecting"
         THEN IF current_status = "active" THEN "at_risk" ELSE current_status
    ELSE current_status

acquisition_order == << "new", "contacted", "interested", "trial", "enrolled" >>

\* list.index for a status of the acquisition funnel, 0 for any other status
\* (positions are 0-based as in the source).
AcquisitionIndex(st) ==
    IF \E i \in DOMAIN acquisition_order : acquisition_order[i] = st
    THEN (CHOOSE i \in DOMAIN acquisition_order : acquisition_order[i] = st) - 1
    ELSE 0

intent_to_status(current_status, intent) ==
    LET stay == IF current_status # "new" THEN current_status ELSE "contacted"
    IN CASE intent = "interested" -> "interested"
         [] intent = "scheduling" -> "trial"
         [] intent = "attending" -> "trial"
         [] intent = "considering" -> "interested"
         [] intent = "requesting_info" -> "contacted"
         [] intent = "objecting" -> stay
         [] intent = "declining" -> "declined"
         [] intent = "no_response" -> stay
         [] intent = "unclear" -> stay
         [] OTHER -> current_status

\* A derivation that takes what the intent proposes, earlier stage or not.
derive_lead_status_proposed(current_status, intent, interaction_status) ==
    IF interaction_status = "opted_out" THEN "declined"
    ELSE IF current_status \in {"enrolled", "active", "at_risk", "inactive"}
         THEN derive_retention_status(current_status, intent, interaction_status)
    ELSE intent_to_status(current_status, intent)

\* A derivation that puts a lead on trial on the retention path already.
derive_lead_status_trial_retained(current_status, intent, interaction_status) ==
    IF interaction_status = "opted_out" THEN "declined"
    ELSE IF current_status \in {"trial", "enrolled", "active", "at_risk", "inactive"}
         THEN derive_retention_status(current_status, intent, interaction_status)
    ELSE LET proposed == intent_to_status(current_status, intent)
         IN IF proposed \in {"declined", "unresponsive"} THEN proposed
            ELSE IF AcquisitionIndex(proposed) >= AcquisitionIndex(current_status)
                 THEN proposed ELSE current_status

derive_lead_status(current_status, intent, interaction_status) ==
    IF interaction_status = "opted_out" THEN "declined"
    ELSE IF current_status \in {"enrolled", "active", "at_risk", "inactive"}
         THEN derive_retention_status(current_status, intent, interaction_status)
    ELSE LET proposed == intent_to_status(current_status, intent)
         IN IF proposed \in {"declined", "unresponsive"} THEN proposed
            ELSE IF AcquisitionIndex(proposed) >= AcquisitionIndex(current_status)
                 THEN proposed ELSE current_status

\* ─── rl_engine.py: rewards and the Q-table ──────────────────────────────
QScale == 10000000

\* Rewards in units of 1/100.
DECLINED_REWARD == 0 - 100
STALL_REWARD == 0 - 2

TRANSITION_REWARDS(status_before, status_after) ==
    LET t == << status_before, status_after >>
    IN CASE t = << "new", "contacted" >> -> 10
         [] t = << "contacted", "interested" >> -> 40
         [] t = << "interested", "trial" >> -> 70
         [] t = << "trial", "enrolled" >> -> 100
         [] t = << "enrolled", "active" >> -> 30
         [] t = << "active", "at_risk" >> -> 0 - 50
         [] t = << "at_risk", "inactive" >> -> 0 - 70
         [] t = << "at_risk", "active" >> -> 50
         [] t = << "inactive", "at_risk" >> -> 30
         [] t = << "inactive", "active" >> -> 60
         [] OTHER -> 0

\* A reward function that tests for an unchanged status first.
compute_reward_stall_first(status_before, status_after) ==
    IF status_before = status_after THEN STALL_REWARD
    ELSE IF status_after = "declined" THEN DECLINED_REWARD
    ELSE TRANSITION_REWARDS(status_before, status_after)

\* A reward function without the declined rule.
compute_reward_stall_only(status_before, status_after) ==
    IF status_before = status_after THEN STALL_REWARD
    ELSE TRANSITION_REWARDS(status_before, status_after)

\* compute_reward, in units of 1/100.
compute_reward(status_before, status_after) ==
    IF status_after = "declined" THEN DECLINED_REWARD
    ELSE IF status_before = status_after THEN STALL_REWARD
    ELSE TRANSITION_REWARDS(status_before, status_after)

\* A reward in the fixed-point unit of the Q-table.
RewardFP(r) == r * (QScale \div 100)

\* QValue row as get_or_create makes it on first reference.
NewQEntry == [ q_value |-> 0, visit_count |-> 0, total_reward |-> 0 ]

\* get_max_q: the best stored q_value over the rows of a state, 0 if none.
get_max_q(qt, state) ==
    LET rows == { k \in DOMAIN qt : k[1] = state }
    IN IF rows = {} THEN 0
       ELSE LET best == CHOOSE k \in rows : \A o \in rows : qt[k].q_value >= qt[o].q_value
            IN qt[best].q_value

\* The Bellman step of update_q_table: ALPHA = 0.1, GAMMA = 0.9.
\* new_q = old_q + ALPHA * (reward + GAMMA * max_q_next - old_q)
BellmanUpdate(old_q, reward, max_q_next) ==
    LET td_target == RewardFP(reward) + ((9 * max_q_next) \div 10)
        td_error == td_target - old_q
    IN old_q + (td_error \div 10)

\* state_after as _update_q_table_from_transition builds it: the new status
\* with the context bucket of the previous decision's state.
StateAfter(state_before, new_status) ==
    << new_status, state_before[2] >>

\* ─── context_service.py: artifacts ──────────────────────────────────────
Artifact(l, i, t, ex) ==
    [ lead |-> l, interaction |-> i, artifact_type |-> t, is_current |-> TRUE,
      concern_level |-> ex.concern_level, topics |-> ex.topics,
      constraints |-> ex.constraints, siblings |-> ex.siblings,
      decision_makers |-> ex.decision_makers ]

\* _create_artifact: the current artifact of the type becomes non-current
\* and the new one is appended as current.
create_artifact(arts, l, i, t, ex) ==
    Append([ j \in DOMAIN arts |->
               IF arts[j].lead = l /\ arts[j].artifact_type = t /\ arts[j].is_current
               THEN [arts[j] EXCEPT !.is_current = FALSE] ELSE arts[j] ],
           Artifact(l, i, t, ex))

\* enrich_from_extraction: summary and detected_intent always, the four
\* enriched dimensions only when they carry a signal.
enrich_from_extraction(arts, l, i, ex) ==
    LET a1 == create_artifact(arts, l, i, "summary", ex)
        a2 == create_artifact(a1, l, i, "detected_intent", ex)
        a3 == IF ex.concern_level # "none"
              THEN create_artifact(a2, l, i, "financial_signals", ex) ELSE a2
        a4 == IF ex.constraints
              THEN create_artifact(a3, l, i, "scheduling_constraints", ex) ELSE a3
        a5 == IF ex.siblings \/ ex.decision_makers
              THEN create_artifact(a4, l, i, "family_context", ex) ELSE a4
    IN IF ex.topics # {} THEN create_artifact(a5, l, i, "objections", ex) ELSE a5

\* ─── nba_engine.py: persist_nba_decision, statement by statement ────────
SupersededIds(decs, l) ==
    { d \in DOMAIN decs : decs[d].lead = l /\ decs[d].is_current }

Supersede(decs, ids) ==
    [ d \in DOMAIN decs |->
        IF d \in ids THEN [decs[d] EXCEPT !.is_current = FALSE, !.status = "superseded"]
        ELSE decs[d] ]

\* A persist that leaves the follow-ups of superseded decisions pending.
CancelPendingSkipped(sched, ids) == sched

CancelPending(sched, ids) ==
    [ a \in DOMAIN sched |->
        IF sched[a].nba_decision \in ids /\ sched[a].status = "pending"
        THEN [sched[a] EXCEPT !.status = "cancelled"] ELSE sched[a] ]

\* NBADecision.objects.create: rl_state and rl_q_value are not passed and
\* keep the column default (null).
CreateDecision(decs, l, result, interaction_id) ==
    Append(decs, [ lead |-> l, interaction |-> interaction_id,
                   action |-> result.action, channel |-> result.channel,
                   priority |-> result.priority, rule_name |-> result.rule_name,
                   scheduled_for |-> result.scheduled_for,
                   is_current |-> TRUE, status |-> "pending",
                   rl_state |-> NoState, rl_q_value |-> NoState ])

NeedsSchedule(result) ==
    result.scheduled_for # NoTime /\ result.action \notin {"no_action", "wait"}

CreateScheduled(sched, l, decision_id, result) ==
    IF NeedsSchedule(result)
    THEN Append(sched, [ lead |-> l, nba_decision |-> decision_id,
                         action_type |-> result.action,
                         channel |-> OrElse(result.channel, "voice"),
                         status |-> "pending" ])
    ELSE sched

\* persist_nba_decision run without interruption (as inside the lead
\* transaction of process_interaction): << decisions, scheduled >>.
persist_nba_decision(decs, sched, l, result, interaction_id) ==
    LET ids == SupersededIds(decs, l)
        d1 == Supersede(decs, ids)
        s1 == IF ids # {} THEN CancelPending(sched, ids) ELSE sched
        d2 == CreateDecision(d1, l, result, interaction_id)
    IN << d2, CreateScheduled(s1, l, Len(d2), result) >>

\* An update that logs the transition but leaves the visit count alone.
update_q_table_uncounted(qt, trs, l, decision_id, state_before, action_taken, state_after, status_before, status_after) ==
    LET reward == compute_reward(status_before, status_after)
        max_q_next == get_max_q(qt, state_after)
        key == << state_before, action_taken >>
        q_entry == IF key \in DOMAIN qt THEN qt[key] ELSE NewQEntry
        old_q == q_entry.q_value
        new_q == BellmanUpdate(old_q, reward, max_q_next)
        saved == [ q_value |-> new_q,
                   visit_count |-> q_entry.visit_count,
                   total_reward |-> q_entry.total_reward + RewardFP(reward) ]
    IN << [ k \in DOMAIN qt \cup {key} |-> IF k = key THEN saved ELSE qt[k] ],
          Append(trs, [ lead |-> l, nba_decision |-> decision_id,
                        state_before |-> state_before, action_taken |-> action_taken,
                        state_after |-> state_after, reward |-> RewardFP(reward),
                        q_value_before |-> old_q, q_value_after |-> new_q ]) >>

\* ─── rl_engine.py: update_q_table, run without interruption ─────────────
\* << qtable, transitions >> after the update.
update_q_table(qt, trs, l, decision_id, state_before, action_taken, state_after, status_before, status_after) ==
    LET reward == compute_reward(status_before, status_after)
        max_q_next == get_max_q(qt, state_after)
        key == << state_before, action_taken >>
        q_entry == IF key \in DOMAIN qt THEN qt[key] ELSE NewQEntry
        old_q == q_entry.q_value
        new_q == BellmanUpdate(old_q, reward, max_q_next)
        saved == [ q_value |-> new_q,
                   visit_count |-> q_entry.visit_count + 1,
                   total_reward |-> q_entry.total_reward + RewardFP(reward) ]
    IN << [ k \in DOMAIN qt \cup {key} |-> IF k = key THEN saved ELSE qt[k] ],
          Append(trs, [ lead |-> l, nba_decision |-> decision_id,
                        state_before |-> state_before, action_taken |-> action_taken,
                        state_after |-> state_after, reward |-> RewardFP(reward),
                        q_value_before |-> old_q, q_value_after |-> new_q ]) >>

\* _update_q_table_from_transition: rewards the lead's current decision,
\* unless there is none or it carries no rl_state.
update_q_table_from_transition(decs, qt, trs, l, old_status, new_status) ==
    LET cur == SupersededIds(decs, l)
    IN IF cur = {} THEN << qt, trs >>
       ELSE LET previous_decision == CHOOSE d \in cur : \A o \in cur : o <= d
            IN IF decs[previous_decision].rl_state = NoState THEN << qt, trs >>
               ELSE update_q_table(qt, trs, l, previous_decision,
                                   decs[previous_decision].rl_state,
                                   decs[previous_decision].action,
                                   StateAfter(decs[previous_decision].rl_state, new_status),
                                   old_status, new_status)

\* ─── Inputs the environment may supply ──────────────────────────────────
\* Interactions submitted through the API (channel, direction, status and
\* whether a transcript came with it).
InteractionInputs ==
    { [ channel |-> "voice", direction |-> "outbound", status |-> "completed", transcript |-> TRUE ],
      [ channel |-> "voice", direction |-> "outbound", status |-> "no_answer", transcript |-> FALSE ],
      [ channel |-> "email", direction |-> "inbound", status |-> "opted_out", transcript |-> TRUE ] }

Extraction(intent, sentiment, level, topics, constraints, siblings, dms) ==
    [ intent |-> intent, sentiment |-> sentiment, concern_level |-> level,
      topics |-> topics, constraints |-> constraints, siblings |-> siblings,
      decision_makers |-> dms ]

\* What the extraction service may return for a transcript.
Extractions ==
    { Extraction("interested", "positive", "none", {}, FALSE, TRUE, FALSE),
      Extraction("declining", "negative", "high", {"cost"}, FALSE, FALSE, FALSE),
      Extraction("unclear", "neutral", "low", {}, TRUE, FALSE, TRUE) }

\* What it may return for a combined SMS thread.
SmsExtractions ==
    { Extraction("unclear", "neutral", "low", {}, TRUE, FALSE, TRUE) }

ServedFor(interaction) == IF interaction.sms THEN SmsExtractions ELSE Extractions

\* extract_from_interaction: no service call without a transcript or for a
\* no_answer / failed interaction.
extract_from_interaction(interaction, served) ==
    IF ~interaction.transcript \/ interaction.status \in {"no_answer", "failed"}
    THEN Extraction(IF interaction.status = "no_answer" THEN "no_response" ELSE "unclear",
                    "neutral", "none", {}, FALSE, FALSE, FALSE)
    ELSE served

NoExtraction == Extraction(None, None, "none", {}, FALSE, FALSE, FALSE)

\* Hours since the last interaction, as compute_nba may measure them.
HoursSamples == {1, 200}

\* ─── Threads ────────────────────────────────────────────────────────────
IdleProc ==
    [ pc |-> "idle", lead |-> None, origin |-> None, ids |-> {}, anchor |-> 0,
      result |-> NoMatch, extraction |-> NoExtraction, todo |-> {},
      upd |-> << >>, absorbed |-> FALSE, locks |-> {} ]

AllIdle == \A p \in Procs : procs[p].pc = "idle"

NewLead ==
    [ status |-> "new", total_interactions |-> 0, total_voice_attempts |-> 0,
      total_sms_attempts |-> 0, total_email_attempts |-> 0 ]

\* seed_q_table: the warm-start rows of the states used below.
SeededQ ==
    LET seed(k) == IF k = << << "new", "neutral" >>, "warm_follow_up" >> THEN 5 ELSE 9
    IN [ k \in { << << "new", "neutral" >>, "warm_follow_up" >>,
                 << << "interested", "scheduling_intent" >>, "scheduling_push" >> } |->
           [ q_value |-> seed(k) * (QScale \div 10), visit_count |-> 0, total_reward |-> 0 ] ]

\* No policy function has been called.
NoCall == [ fn |-> None ]

\* The empty database of a fresh deployment after seed_q_table, idle threads.
InitRows ==
    /\ leads = [ l \in Leads |-> NewLead ]
    /\ interactions = << >>
    /\ events = [ l \in Leads |-> << >> ]
    /\ artifacts = << >>
    /\ decisions = << >>
    /\ scheduled = << >>
    /\ qtable = SeededQ
    /\ transitions = << >>
    /\ smsBuffer = << >>
    /\ checkTasks = [ l \in Leads |-> 0 ]
    /\ now = 0
    /\ procs = [ p \in Procs |-> IdleProc ]
    /\ patches = 0
    /\ lostTasks = 0
    /\ flushLog = << >>
    /\ pipelineLog = << >>

Init == InitRows /\ rl = NoCall

\* ─── api/leads.py: LeadDetailView.patch with a status ───────────────────
PatchLeadStatus(l, st) ==
    /\ patches < MaxPatches
    /\ leads[l].status # st
    /\ leads' = [leads EXCEPT ![l].status = st]
    /\ patches' = patches + 1
    /\ UNCHANGED << interactions, events, artifacts, decisions, scheduled, qtable,
                    transitions, smsBuffer, checkTasks, now, procs, lostTasks,
                    flushLog, pipelineLog, rl >>

\* ─── api/interactions.py: InteractionSubmitView.post ────────────────────
\* Creates the interaction row; the pipeline then runs in the same request.
SubmitInteraction(p, l, inp) ==
    /\ procs[p].pc = "idle"
    /\ Cardinality({ i \in DOMAIN interactions : ~interactions[i].sms }) < MaxInteractions
    /\ interactions' = Append(interactions,
            [ lead |-> l, channel |-> inp.channel, direction |-> inp.direction,
              status |-> inp.status, transcript |-> inp.transcript, sms |-> FALSE,
              detected_intent |-> None, sentiment |-> None, processed |-> FALSE ])
    /\ procs' = [procs EXCEPT ![p] = [IdleProc EXCEPT !.pc = "pi_extract", !.lead = l,
                                        !.origin = "api", !.anchor = Len(interactions) + 1]]
    /\ UNCHANGED << leads, events, artifacts, decisions, scheduled, qtable, transitions,
                    smsBuffer, checkTasks, now, patches, lostTasks, flushLog, pipelineLog, rl >>

\* ─── interaction_processor.py: process_interaction ──────────────────────
HasAttr(obj, name) == name \in DOMAIN obj

\* Where a thread goes when process_interaction returns or raises: the
\* sweep catches the exception and goes on with its next lead, every other
\* caller ends its request or task.
AfterPipeline(pr) ==
    IF pr.origin = "sweep"
    THEN [IdleProc EXCEPT !.pc = "sweep_next", !.origin = "sweep", !.todo = pr.todo]
    ELSE IdleProc

\* A lookup that takes every lead for found.
LeadFoundAlways(lds, l) == TRUE

\* Lead.objects.filter(id=interaction.lead_id).first() finds a row.
LeadFound(lds, l) == l \in DOMAIN lds

\* The lead row is gone: ValueError is raised before anything is written.
ProcessNotFound(p) ==
    /\ procs[p].pc = "pi_extract"
    /\ ~LeadFound(leads, interactions[procs[p].anchor].lead)
    /\ pipelineLog' = Append(pipelineLog,
            [ interaction |-> procs[p].anchor, lead |-> interactions[procs[p].anchor].lead,
              origin |-> procs[p].origin, outcome |-> "ValueError", had_previous |-> FALSE,
              absorbed |-> FALSE ])
    /\ procs' = [procs EXCEPT ![p] = AfterPipeline(procs[p])]
    /\ UNCHANGED << dbVars, checkTasks, now, patches, lostTasks, flushLog, rl >>

\* Steps 1-2, outside the transaction: the interaction_completed event, the
\* extraction ex and interaction.save() with the extracted fields.
ExtractWith(p, ex, absorbed) ==
    LET i == procs[p].anchor
        l == interactions[i].lead
    IN /\ events' = [events EXCEPT ![l] = Append(@, "interaction_completed")]
       /\ interactions' = [interactions EXCEPT
                             ![i].detected_intent = ex.intent,
                             ![i].sentiment = ex.sentiment,
                             ![i].processed = TRUE]
       /\ procs' = [procs EXCEPT ![p].pc = "pi_txn", ![p].extraction = ex,
                                 ![p].absorbed = absorbed]
       /\ UNCHANGED << leads, artifacts, decisions, scheduled, qtable, transitions,
                       smsBuffer, checkTasks, now, patches, lostTasks, flushLog,
                       pipelineLog, rl >>

\* What the pipeline sees of the interaction: a flush passes the combined
\* transcript as transcript_override.
SeenBy(p) ==
    [interactions[procs[p].anchor] EXCEPT !.transcript = @ \/ procs[p].origin # "api"]

ProcessExtract(p) ==
    /\ procs[p].pc = "pi_extract"
    /\ LeadFound(leads, interactions[procs[p].anchor].lead)
    /\ \E served \in ServedFor(SeenBy(p)) :
          ExtractWith(p, extract_from_interaction(SeenBy(p), served), FALSE)

\* _openai_extraction when the service call raises or its answer does not
\* parse: the except branch returns the minimal record.
FailedExtraction == Extraction("unclear", "neutral", "none", {}, FALSE, FALSE, FALSE)

\* process_interaction with the extraction service failing.
ProcessExtractFailed(p) ==
    /\ procs[p].pc = "pi_extract"
    /\ LeadFound(leads, interactions[procs[p].anchor].lead)
    /\ SeenBy(p).transcript /\ SeenBy(p).status \notin {"no_answer", "failed"}
    /\ ExtractWith(p, FailedExtraction, TRUE)

\* Attempt counters of step 4 (F() increments on the lead row).
BumpCounters(lead, channel) ==
    [lead EXCEPT
       !.total_interactions = @ + 1,
       !.total_voice_attempts = IF channel = "voice" THEN @ + 1 ELSE @,
       !.total_sms_attempts = IF channel = "sms" THEN @ + 1 ELSE @,
       !.total_email_attempts = IF channel = "email" THEN @ + 1 ELSE @]

\* Steps 3-6, one transaction under the lead's row lock.  The step reads
\* action_brief.semantic_action of what compute_nba returned right after
\* persisting the decision; an object without that attribute raises
\* AttributeError there, which rolls the whole transaction back.
TransactionOutcome(p, hours) ==
    LET i == procs[p].anchor
        l == interactions[i].lead
        ex == procs[p].extraction
        arts1 == enrich_from_extraction(artifacts, l, i, ex)
        old_status == leads[l].status
        new_status == derive_lead_status(old_status, ex.intent, interactions[i].status)
        lead1 == [BumpCounters(leads[l], interactions[i].channel) EXCEPT !.status = new_status]
        ev1 == Append(events[l], "context_enriched")
        ev2 == IF new_status # old_status THEN Append(ev1, "status_changed") ELSE ev1
        learned == update_q_table_from_transition(decisions, qtable, transitions,
                                                  l, old_status, new_status)
        nba == compute_nba(lead1, l, interactions, i, hours, arts1)
        action_brief == nba[1]
        persisted == persist_nba_decision(decisions, scheduled, l, action_brief, i)
        committed == HasAttr(action_brief, "semantic_action")
        entry == [ interaction |-> i, lead |-> l, origin |-> procs[p].origin,
                   outcome |-> IF committed THEN "committed" ELSE "AttributeError",
                   had_previous |-> SupersededIds(decisions, l) # {},
                   absorbed |-> procs[p].absorbed ]
    IN IF committed
       THEN [ leads |-> [leads EXCEPT ![l] = lead1], artifacts |-> arts1,
              events |-> [events EXCEPT ![l] = Append(ev2, "nba_produced")],
              qtable |-> learned[1], transitions |-> learned[2],
              decisions |-> persisted[1], scheduled |-> persisted[2], entry |-> entry ]
       ELSE [ leads |-> leads, artifacts |-> artifacts, events |-> events,
              qtable |-> qtable, transitions |-> transitions,
              decisions |-> decisions, scheduled |-> scheduled, entry |-> entry ]

ProcessTransaction(p) ==
    /\ procs[p].pc = "pi_txn"
    /\ \E hours \in HoursSamples :
        LET out == TransactionOutcome(p, hours)
        IN /\ pipelineLog' = Append(pipelineLog, out.entry)
           /\ leads' = out.leads
           /\ artifacts' = out.artifacts
           /\ events' = out.events
           /\ qtable' = out.qtable
           /\ transitions' = out.transitions
           /\ decisions' = out.decisions
           /\ scheduled' = out.scheduled
           /\ procs' = [procs EXCEPT ![p] = AfterPipeline(procs[p])]
    /\ UNCHANGED << interactions, smsBuffer, checkTasks, now, patches, lostTasks, flushLog, rl >>

\* ─── api/nba.py: NBARecomputeView.post ──────────────────────────────────
\* Lead.objects.get and compute_nba(lead); persist_nba_decision follows
\* statement by statement, each one committed on its own (no transaction).
Recompute(p, l) ==
    /\ procs[p].pc = "idle"
    /\ Len(decisions) + Cardinality({ q \in Procs : procs[q].pc \in
            {"persist_select", "persist_supersede", "persist_cancel", "persist_create"} })
         < MaxDecisions
    /\ \E hours \in HoursSamples :
         procs' = [procs EXCEPT ![p] =
                     [IdleProc EXCEPT !.pc = "persist_select", !.lead = l, !.origin = "recompute",
                        !.result = compute_nba(leads[l], l, interactions, 0, hours, artifacts)[1]]]
    /\ UNCHANGED << dbVars, checkTasks, now, patches, lostTasks, flushLog, pipelineLog, rl >>

PersistSelect(p) ==
    /\ procs[p].pc = "persist_select"
    /\ procs' = [procs EXCEPT ![p].pc = "persist_supersede",
                              ![p].ids = SupersededIds(decisions, procs[p].lead)]
    /\ UNCHANGED << dbVars, checkTasks, now, patches, lostTasks, flushLog, pipelineLog, rl >>

PersistSupersede(p) ==
    /\ procs[p].pc = "persist_supersede"
    /\ decisions' = Supersede(decisions, procs[p].ids)
    /\ procs' = [procs EXCEPT ![p].pc = "persist_cancel"]
    /\ UNCHANGED << leads, interactions, events, artifacts, scheduled, qtable, transitions,
                    smsBuffer, checkTasks, now, patches, lostTasks, flushLog, pipelineLog, rl >>

PersistCancel(p) ==
    /\ procs[p].pc = "persist_cancel"
    /\ scheduled' = IF procs[p].ids # {} THEN CancelPending(scheduled, procs[p].ids)
                    ELSE scheduled
    /\ procs' = [procs EXCEPT ![p].pc = "persist_create"]
    /\ UNCHANGED << leads, interactions, events, artifacts, decisions, qtable, transitions,
                    smsBuffer, checkTasks, now, patches, lostTasks, flushLog, pipelineLog, rl >>

PersistCreate(p) ==
    /\ procs[p].pc = "persist_create"
    /\ decisions' = CreateDecision(decisions, procs[p].lead, procs[p].result, 0)
    /\ procs' = [procs EXCEPT ![p].pc = "persist_schedule",
                              ![p].anchor = Len(decisions) + 1]
    /\ UNCHANGED << leads, interactions, events, artifacts, scheduled, qtable, transitions,
                    smsBuffer, checkTasks, now, patches, lostTasks, flushLog, pipelineLog, rl >>

PersistSchedule(p) ==
    /\ procs[p].pc = "persist_schedule"
    /\ scheduled' = CreateScheduled(scheduled, procs[p].lead, procs[p].anchor, procs[p].result)
    /\ procs' = [procs EXCEPT ![p] = IdleProc]
    /\ UNCHANGED << leads, interactions, events, artifacts, decisions, qtable, transitions,
                    smsBuffer, checkTasks, now, patches, lostTasks, flushLog, pipelineLog, rl >>

\* ─── The decision pipeline, one request at a time ───────────────────────
PatchStatuses == {"declined", "active", "inactive", "trial"}

\* The leads the decision requests below are made for.
PipelineLeads == {"l1"}

PersistStep(p) ==
    \/ PersistSelect(p)
    \/ PersistSupersede(p)
    \/ PersistCancel(p)
    \/ PersistCreate(p)
    \/ PersistSchedule(p)

Next ==
    \/ \E l \in PipelineLeads, st \in PatchStatuses : AllIdle /\ PatchLeadStatus(l, st)
    \/ \E p \in Procs, l \in PipelineLeads, inp \in InteractionInputs :
          AllIdle /\ SubmitInteraction(p, l, inp)
    \/ \E p \in Procs : ProcessExtract(p)
    \/ \E p \in Procs : ProcessTransaction(p)
    \/ \E p \in Procs, l \in PipelineLeads : AllIdle /\ Recompute(p, l)
    \/ \E p \in Procs : PersistStep(p)

Spec == Init /\ [][Next]_vars

\* ─── The pipeline on an interaction whose lead row has been deleted ─────
\* The lead row is deleted from the database (the application has no
\* operation for it) after the request has created its interaction and
\* before process_interaction looks the lead up.  The deletion cascades to
\* the interaction row; the thread keeps the object it created.
RemoveLead(l) ==
    /\ l \in DOMAIN leads
    /\ events[l] = << >>
    /\ \E p \in Procs : procs[p].pc = "pi_extract" /\ interactions[procs[p].anchor].lead = l
    /\ \A p \in Procs : procs[p].pc = "pi_txn" => interactions[procs[p].anchor].lead # l
    /\ leads' = [ k \in DOMAIN leads \ {l} |-> leads[k] ]
    /\ UNCHANGED << interactions, events, artifacts, decisions, scheduled, qtable, transitions,
                    smsBuffer, checkTasks, now, procs, patches, lostTasks, flushLog,
                    pipelineLog, rl >>

NextGone ==
    \/ \E l \in DOMAIN leads, st \in PatchStatuses : PatchLeadStatus(l, st)
    \/ \E p \in Procs, l \in DOMAIN leads, inp \in InteractionInputs :
          SubmitInteraction(p, l, inp)
    \/ \E l \in Leads : RemoveLead(l)
    \/ \E p \in Procs : ProcessNotFound(p)
    \/ \E p \in Procs : ProcessExtract(p)
    \/ \E p \in Procs : ProcessTransaction(p)

SpecGone == Init /\ [][NextGone]_vars

\* ─── The pipeline with an extraction service that may fail ──────────────
NextAbsorb ==
    \/ \E l \in PipelineLeads, st \in PatchStatuses : PatchLeadStatus(l, st)
    \/ \E p \in Procs, l \in PipelineLeads, inp \in InteractionInputs :
          SubmitInteraction(p, l, inp)
    \/ \E p \in Procs : ProcessExtract(p)
    \/ \E p \in Procs : ProcessExtractFailed(p)
    \/ \E p \in Procs : ProcessTransaction(p)

SpecAbsorb == Init /\ [][NextAbsorb]_vars

\* ─── Force-recompute requests running concurrently ──────────────────────
NextRace ==
    \/ \E l \in PipelineLeads, st \in PatchStatuses : PatchLeadStatus(l, st)
    \/ \E p \in Procs, l \in PipelineLeads : Recompute(p, l)
    \/ \E p \in Procs : PersistStep(p)

SpecRace == Init /\ [][NextRace]_vars

\* ─── rl_engine.py: update_q_table called by concurrent workers ──────────
QStateInputs == { << "new", "neutral" >> }
QActionInputs == { "warm_follow_up", "gentle_nudge" }
QStatusInputs == { << "new", "contacted" >>, << "new", "new" >>, << "new", "declined" >> }

InUpdate(p) == procs[p].pc \in {"q_get", "q_save"}

\* Entry of update_q_table: the reward and max_q_next = get_max_q(state_after)
\* are computed before the transaction opens.
UpdateBegin(p, l, state_before, action_taken, statuses) ==
    /\ procs[p].pc = "idle"
    /\ Len(transitions) + Cardinality({ q \in Procs : InUpdate(q) }) < MaxQUpdates
    /\ LET state_after == StateAfter(state_before, statuses[2])
       IN procs' = [procs EXCEPT ![p] =
            [IdleProc EXCEPT !.pc = "q_get", !.lead = l, !.origin = "update_q_table",
               !.upd = [ key |-> << state_before, action_taken >>,
                         state_after |-> state_after,
                         reward |-> compute_reward(statuses[1], statuses[2]),
                         max_q_next |-> get_max_q(qtable, state_after),
                         q_entry |-> NewQEntry, created |-> FALSE ]]]
    /\ UNCHANGED << dbVars, checkTasks, now, patches, lostTasks, flushLog, pipelineLog, rl >>

\* get_q_value inside the transaction: a plain read of the row (no row
\* lock), or its creation.  A second creator of the same key waits on the
\* unique (state, action) index until the first one has committed.
UpdateGet(p) ==
    /\ procs[p].pc = "q_get"
    /\ LET key == procs[p].upd.key
       IN /\ key \notin DOMAIN qtable =>
                ~\E q \in Procs \ {p} :
                    procs[q].pc = "q_save" /\ procs[q].upd.key = key /\ procs[q].upd.created
          /\ procs' = [procs EXCEPT
                ![p].pc = "q_save",
                ![p].upd.q_entry = IF key \in DOMAIN qtable THEN qtable[key] ELSE NewQEntry,
                ![p].upd.created = key \notin DOMAIN qtable]
    /\ UNCHANGED << dbVars, checkTasks, now, patches, lostTasks, flushLog, pipelineLog, rl >>

\* q_entry.save() writes the row from the values held in memory, the
\* StateTransition is created and the transaction commits.
UpdateSave(p) ==
    /\ procs[p].pc = "q_save"
    /\ LET u == procs[p].upd
           old_q == u.q_entry.q_value
           new_q == BellmanUpdate(old_q, u.reward, u.max_q_next)
           saved == [ q_value |-> new_q,
                      visit_count |-> u.q_entry.visit_count + 1,
                      total_reward |-> u.q_entry.total_reward + RewardFP(u.reward) ]
       IN /\ qtable' = [ k \in DOMAIN qtable \cup {u.key} |->
                           IF k = u.key THEN saved ELSE qtable[k] ]
          /\ transitions' = Append(transitions,
                [ lead |-> procs[p].lead, nba_decision |-> 0,
                  state_before |-> u.key[1], action_taken |-> u.key[2],
                  state_after |-> u.state_after, reward |-> RewardFP(u.reward),
                  q_value_before |-> old_q, q_value_after |-> new_q ])
    /\ procs' = [procs EXCEPT ![p] = IdleProc]
    /\ UNCHANGED << leads, interactions, events, artifacts, decisions, scheduled,
                    smsBuffer, checkTasks, now, patches, lostTasks, flushLog, pipelineLog, rl >>

NextQ ==
    \/ \E p \in Procs, l \in Leads, sb \in QStateInputs, a \in QActionInputs,
          st \in QStatusInputs : UpdateBegin(p, l, sb, a, st)
    \/ \E p \in Procs : UpdateGet(p)
    \/ \E p \in Procs : UpdateSave(p)

SpecQ == Init /\ [][NextQ]_vars

\* ─── sms_batcher.py and SMSMessageView: the message-thread batcher ──────
QUIET_PERIOD == 5
MAX_ACCUMULATION == 15
MAX_BUFFERED_MESSAGES == 6

\* The leads that receive SMS below, the minutes at which a message may
\* arrive (received_at is the server's clock) and those at which one with an
\* urgent keyword may.
BatchLeads == {"l1"}
ArrivalTimes == {0, 1, 5}
UrgentTimes == {5}

\* The pool hands a new request or task to an idle thread; the threads are
\* interchangeable.
Free(p) == p = CHOOSE q \in Procs : procs[q].pc = "idle"

Unflushed(l) == { b \in DOMAIN smsBuffer : smsBuffer[b].lead = l /\ ~smsBuffer[b].flushed }

\* Min("received_at") / Max("received_at") over a non-empty set of rows.
Oldest(rows) == CHOOSE t \in { smsBuffer[b].received_at : b \in rows } :
                    \A b \in rows : t <= smsBuffer[b].received_at
Newest(rows) == CHOOSE t \in { smsBuffer[b].received_at : b \in rows } :
                    \A b \in rows : t >= smsBuffer[b].received_at

\* The last row of the batch in received_at order (ids break ties).
LastRow(rows) == CHOOSE b \in rows : \A o \in rows :
                    \/ smsBuffer[o].received_at < smsBuffer[b].received_at
                    \/ smsBuffer[o].received_at = smsBuffer[b].received_at /\ o <= b

\* SMSMessageView.post: the Interaction and the SMSBuffer row are created at
\* once; an urgent body is flushed in the request, any other schedules a
\* check_sms_flush task.
ReceiveSms(p, l, is_urgent) ==
    /\ procs[p].pc = "idle" /\ Free(p)
    /\ interactions' = Append(interactions,
            [ lead |-> l, channel |-> "sms", direction |-> "inbound",
              status |-> "completed", transcript |-> TRUE, sms |-> TRUE,
              detected_intent |-> None, sentiment |-> None, processed |-> FALSE ])
    /\ smsBuffer' = Append(smsBuffer,
            [ lead |-> l, received_at |-> now, is_urgent |-> is_urgent,
              flushed |-> FALSE, interaction |-> Len(interactions) + 1 ])
    /\ IF is_urgent
       THEN /\ procs' = [procs EXCEPT ![p] =
                  [IdleProc EXCEPT !.pc = "flush_lock", !.lead = l, !.origin = "urgent"]]
            /\ UNCHANGED checkTasks
       ELSE /\ checkTasks' = [checkTasks EXCEPT ![l] = @ + 1]
            /\ UNCHANGED procs
    /\ UNCHANGED << leads, events, artifacts, decisions, scheduled, qtable, transitions,
                    now, patches, lostTasks, flushLog, pipelineLog, rl >>

\* A message arrives at one of the sampled minutes.
SmsArrive(p, l, is_urgent) ==
    /\ Len(smsBuffer) < MaxMessages
    /\ now \in ArrivalTimes
    /\ is_urgent => now \in UrgentTimes
    /\ ReceiveSms(p, l, is_urgent)

\* A message of a burst of non-urgent messages arrives.
SmsBurst(p, l) ==
    /\ Len(smsBuffer) < MaxBurst
    /\ now \in ArrivalTimes
    /\ ReceiveSms(p, l, FALSE)

\* Flush criteria with a quiet period of one minute.
should_flush_early(count, oldest, newest, t) ==
    \/ count >= MAX_BUFFERED_MESSAGES
    \/ (t - oldest) >= MAX_ACCUMULATION
    \/ (t - newest) >= 1

\* Flush criteria with the count compared by > instead of >=.
should_flush_over(count, oldest, newest, t) ==
    \/ count > MAX_BUFFERED_MESSAGES
    \/ (t - oldest) >= MAX_ACCUMULATION
    \/ (t - newest) >= QUIET_PERIOD

\* The three flush criteria of check_sms_flush.
should_flush(count, oldest, newest, t) ==
    \/ count >= MAX_BUFFERED_MESSAGES
    \/ (t - oldest) >= MAX_ACCUMULATION
    \/ (t - newest) >= QUIET_PERIOD

\* check_sms_flush: a worker takes one queued task of the lead; it ends when
\* nothing is pending, goes on to flush_sms_thread, or re-arms itself.
\* A recheck that ends without re-arming when the thread is not yet due.
CheckSmsFlushOnce(p, l) ==
    /\ procs[p].pc = "idle" /\ Free(p)
    /\ checkTasks[l] > 0
    /\ LET pending == Unflushed(l)
       IN IF pending # {}
             /\ should_flush(Cardinality(pending), Oldest(pending), Newest(pending), now)
          THEN procs' = [procs EXCEPT ![p] =
                  [IdleProc EXCEPT !.pc = "flush_lock", !.lead = l, !.origin = "check"]]
          ELSE UNCHANGED procs
    /\ checkTasks' = [checkTasks EXCEPT ![l] = @ - 1]
    /\ UNCHANGED << dbVars, now, patches, lostTasks, flushLog, pipelineLog, rl >>

\* check_sms_flush, the task queued by a non-urgent arrival.  Re-arming
\* queues one task for the one that ends, which leaves the queue as it was.
CheckSmsFlush(p, l) ==
    /\ procs[p].pc = "idle" /\ Free(p)
    /\ checkTasks[l] > 0
    /\ LET pending == Unflushed(l)
       IN IF pending = {}
          THEN /\ checkTasks' = [checkTasks EXCEPT ![l] = @ - 1]
               /\ UNCHANGED procs
          ELSE IF should_flush(Cardinality(pending), Oldest(pending), Newest(pending), now)
               THEN /\ checkTasks' = [checkTasks EXCEPT ![l] = @ - 1]
                    /\ procs' = [procs EXCEPT ![p] =
                          [IdleProc EXCEPT !.pc = "flush_lock", !.lead = l, !.origin = "check"]]
               ELSE UNCHANGED << checkTasks, procs >>
    /\ UNCHANGED << dbVars, now, patches, lostTasks, flushLog, pipelineLog, rl >>

\* A queued check_sms_flush task is lost (worker restart, broker hiccup).
LoseTask(l) ==
    /\ checkTasks[l] > 0
    /\ lostTasks < MaxLostTasks
    /\ checkTasks' = [checkTasks EXCEPT ![l] = @ - 1]
    /\ lostTasks' = lostTasks + 1
    /\ UNCHANGED << dbVars, now, procs, patches, flushLog, pipelineLog, rl >>

\* A sweep that finds no thread stale.
stale_leads_none(t) == {}

\* The leads flush_stale_threads selects: an unflushed row received at or
\* before now - MAX_ACCUMULATION.
stale_leads(t) ==
    { l \in Leads : \E b \in Unflushed(l) : smsBuffer[b].received_at <= t - MAX_ACCUMULATION }

\* flush_stale_threads, run by the every-minute schedule: the stale leads
\* are read once, then flushed one after the other.
Sweep(p) ==
    /\ procs[p].pc = "idle" /\ Free(p)
    /\ stale_leads(now) # {}
    /\ procs' = [procs EXCEPT ![p] =
          [IdleProc EXCEPT !.pc = "sweep_next", !.origin = "sweep", !.todo = stale_leads(now)]]
    /\ UNCHANGED << dbVars, checkTasks, now, patches, lostTasks, flushLog, pipelineLog, rl >>

SweepNext(p) ==
    /\ procs[p].pc = "sweep_next"
    /\ IF procs[p].todo = {}
       THEN procs' = [procs EXCEPT ![p] = IdleProc]
       ELSE \E l \in procs[p].todo :
              procs' = [procs EXCEPT ![p].pc = "flush_lock", ![p].lead = l,
                                     ![p].todo = procs[p].todo \ {l}]
    /\ UNCHANGED << dbVars, checkTasks, now, patches, lostTasks, flushLog, pipelineLog, rl >>

\* A flush that takes no row lock: it reads the rows whoever holds them.
RowsLockedIgnored(p, l) == FALSE

\* Another flush holds the row locks of the lead's unflushed rows.
RowsLocked(p, l) ==
    \E q \in Procs \ {p} : procs[q].pc = "flush_commit" /\ procs[q].lead = l

\* A block that keeps its row locks when it is left.
LocksKept(held) == held

\* The row locks a thread holds when it leaves the "with transaction.atomic()"
\* block in which it took them: the commit releases them.
LocksAfterBlock(held) == {}

\* A flush that runs the pipeline on the lead's latest message although
\* nothing is left to flush.
FlushLockRunsAnyway(p) ==
    /\ procs[p].pc = "flush_lock"
    /\ LET l == procs[p].lead
           buf_list == Unflushed(l)
           rows == { b \in DOMAIN smsBuffer : smsBuffer[b].lead = l }
       IN /\ ~RowsLocked(p, l)
          /\ IF buf_list # {}
             THEN procs' = [procs EXCEPT ![p].pc = "flush_commit", ![p].ids = buf_list,
                                         ![p].anchor = smsBuffer[LastRow(buf_list)].interaction]
             ELSE IF rows # {}
             THEN procs' = [procs EXCEPT ![p].pc = "pi_extract",
                                         ![p].anchor = smsBuffer[LastRow(rows)].interaction]
             ELSE procs' = [procs EXCEPT ![p] = AfterPipeline(procs[p])]
    /\ UNCHANGED << dbVars, checkTasks, now, patches, lostTasks, flushLog, pipelineLog, rl >>

\* flush_sms_thread, first half: the transaction opens and
\* select_for_update() reads the lead's unflushed rows, waiting while
\* another transaction holds their locks.  No row: return None.
FlushLock(p) ==
    /\ procs[p].pc = "flush_lock"
    /\ LET l == procs[p].lead
           buf_list == Unflushed(l)
       IN /\ ~RowsLocked(p, l)
          /\ IF buf_list = {}
             THEN procs' = [procs EXCEPT ![p] = AfterPipeline(procs[p])]
             ELSE procs' = [procs EXCEPT ![p].pc = "flush_commit", ![p].ids = buf_list,
                                         ![p].anchor = smsBuffer[LastRow(buf_list)].interaction,
                                         ![p].locks = { << "SMSBuffer", b >> : b \in buf_list }]
    /\ UNCHANGED << dbVars, checkTasks, now, patches, lostTasks, flushLog, pipelineLog, rl >>

\* An update that flips the flag of every row of the lead.
FlushCommitFlipping(p) ==
    /\ procs[p].pc = "flush_commit"
    /\ LET l == procs[p].lead
       IN /\ smsBuffer' = [ b \in DOMAIN smsBuffer |->
                              IF smsBuffer[b].lead = l
                              THEN [smsBuffer[b] EXCEPT !.flushed = ~@] ELSE smsBuffer[b] ]
          /\ flushLog' = Append(flushLog,
                [ lead |-> l, transcript |-> procs[p].ids, marked |-> Unflushed(l),
                  anchor |-> procs[p].anchor, origin |-> procs[p].origin ])
    /\ procs' = [procs EXCEPT ![p].pc = "pi_extract", ![p].ids = {}]
    /\ UNCHANGED << leads, interactions, events, artifacts, decisions, scheduled, qtable,
                    transitions, checkTasks, now, patches, lostTasks, pipelineLog, rl >>

\* flush_sms_thread, second half: buffers.update(flushed=True) marks every
\* row of the lead that is unflushed at that moment, and the transaction
\* commits; process_interaction(anchor, combined_transcript) follows.
FlushCommit(p) ==
    /\ procs[p].pc = "flush_commit"
    /\ LET l == procs[p].lead
       IN /\ smsBuffer' = [ b \in DOMAIN smsBuffer |->
                              IF b \in Unflushed(l)
                              THEN [smsBuffer[b] EXCEPT !.flushed = TRUE] ELSE smsBuffer[b] ]
          /\ flushLog' = Append(flushLog,
                [ lead |-> l, transcript |-> procs[p].ids, marked |-> Unflushed(l),
                  anchor |-> procs[p].anchor, origin |-> procs[p].origin ])
    /\ procs' = [procs EXCEPT ![p].pc = "pi_extract", ![p].ids = {},
                               ![p].locks = LocksAfterBlock(@)]
    /\ UNCHANGED << leads, interactions, events, artifacts, decisions, scheduled, qtable,
                    transitions, checkTasks, now, patches, lostTasks, pipelineLog, rl >>

Tick ==
    /\ now < MaxTime
    /\ now' = now + 1
    /\ UNCHANGED << dbVars, checkTasks, procs, patches, lostTasks, flushLog, pipelineLog, rl >>

NextBatch ==
    \/ \E p \in Procs, l \in BatchLeads, u \in BOOLEAN : SmsArrive(p, l, u)
    \/ \E p \in Procs, l \in BatchLeads : CheckSmsFlush(p, l)
    \/ \E l \in BatchLeads : LoseTask(l)
    \/ \E p \in Procs : Sweep(p)
    \/ \E p \in Procs : SweepNext(p)
    \/ \E p \in Procs : FlushLock(p)
    \/ \E p \in Procs : FlushCommit(p)
    \/ \E p \in Procs : ProcessExtract(p)
    \/ \E p \in Procs : ProcessTransaction(p)
    \/ Tick

SpecBatch == Init /\ [][NextBatch]_vars

\* The batcher with no urgent message: the threads for which the sweep is
\* the safety net.
NextSweep ==
    \/ \E p \in Procs, l \in BatchLeads : SmsArrive(p, l, FALSE)
    \/ \E p \in Procs, l \in BatchLeads : CheckSmsFlush(p, l)
    \/ \E l \in BatchLeads : LoseTask(l)
    \/ \E p \in Procs : Sweep(p)
    \/ \E p \in Procs : SweepNext(p)
    \/ \E p \in Procs : FlushLock(p)
    \/ \E p \in Procs : FlushCommit(p)
    \/ \E p \in Procs : ProcessExtract(p)
    \/ \E p \in Procs : ProcessTransaction(p)
    \/ Tick

\* The clock runs, the every-minute schedule keeps starting the sweep, and
\* a thread that has started a flush or the pipeline goes on with it (the
\* pipeline transaction waits for nothing, so a thread inside it leaves it).
\* Nothing is assumed of the check_sms_flush tasks.
SpecSweep ==
    /\ Init /\ [][NextSweep]_vars
    /\ WF_vars(Tick)
    /\ WF_vars(\E p \in Procs : Sweep(p))
    /\ \A p \in Procs :
          /\ WF_vars(SweepNext(p) \/ FlushLock(p) \/ FlushCommit(p) \/ ProcessExtract(p))
          /\ []<>(procs[p].pc # "pi_txn")

\* A burst: non-urgent messages arrive while the clock stays below the
\* quiet period, so neither time trigger can fire.
\* The batcher with threads of two leads side by side; the clock moves
\* between requests and tasks, not in the middle of one, and by a quiet
\* period or an accumulation window at a time.
TickThreads ==
    /\ AllIdle
    /\ \E d \in {QUIET_PERIOD, MAX_ACCUMULATION} : now + d <= MaxTime /\ now' = now + d
    /\ UNCHANGED << dbVars, checkTasks, procs, patches, lostTasks, flushLog, pipelineLog, rl >>

NextThreads ==
    \/ \E p \in Procs, l \in Leads, u \in BOOLEAN : SmsArrive(p, l, u)
    \/ \E p \in Procs, l \in Leads : CheckSmsFlush(p, l)
    \/ \E p \in Procs : Sweep(p)
    \/ \E p \in Procs : SweepNext(p)
    \/ \E p \in Procs : FlushLock(p)
    \/ \E p \in Procs : FlushCommit(p)
    \/ \E p \in Procs : ProcessExtract(p)
    \/ \E p \in Procs : ProcessTransaction(p)
    \/ TickThreads

SpecThreads == Init /\ [][NextThreads]_vars

\* The rechecks alone: every queued task is run, none is lost, and no
\* sweep comes to the rescue.
NextRecheck ==
    \/ \E p \in Procs, l \in BatchLeads : SmsArrive(p, l, FALSE)
    \/ \E p \in Procs, l \in BatchLeads : CheckSmsFlush(p, l)
    \/ \E p \in Procs : FlushLock(p)
    \/ \E p \in Procs : FlushCommit(p)
    \/ \E p \in Procs : ProcessExtract(p)
    \/ \E p \in Procs : ProcessTransaction(p)
    \/ Tick

SpecRecheck ==
    /\ Init /\ [][NextRecheck]_vars
    /\ WF_vars(Tick)
    /\ \A l \in BatchLeads : WF_vars(\E p \in Procs : CheckSmsFlush(p, l))
    /\ \A p \in Procs :
          /\ WF_vars(FlushLock(p) \/ FlushCommit(p) \/ ProcessExtract(p))
          /\ []<>(procs[p].pc # "pi_txn")

TickBurst == Tick /\ now' < QUIET_PERIOD

NextBurst ==
    \/ \E p \in Procs, l \in BatchLeads : SmsBurst(p, l)
    \/ \E p \in Procs, l \in BatchLeads : CheckSmsFlush(p, l)
    \/ \E p \in Procs : FlushLock(p)
    \/ \E p \in Procs : FlushCommit(p)
    \/ \E p \in Procs : ProcessExtract(p)
    \/ \E p \in Procs : ProcessTransaction(p)
    \/ TickBurst

\* The django-q workers run the queued check_sms_flush tasks, and a thread
\* that has started a flush or the pipeline goes on with it.  Nothing is
\* assumed of the clock.
SpecBurst ==
    /\ Init /\ [][NextBurst]_vars
    /\ WF_vars(\E p \in Procs, l \in BatchLeads : CheckSmsFlush(p, l))
    /\ \A p \in Procs :
          /\ WF_vars(FlushLock(p) \/ FlushCommit(p) \/ ProcessExtract(p))
          /\ []<>(procs[p].pc # "pi_txn")

\* ─── rl_engine.py: state encoding and the action filter ─────────────────
SEMANTIC_ACTIONS ==
    << "warm_follow_up", "scheduling_push", "scholarship_outreach", "info_send",
       "gentle_nudge", "objection_address", "welcome_onboard", "retention_check_in",
       "family_engage", "channel_switch", "wait", "stop" >>

\* What a call returns when it raises AttributeError.
AttributeError == << "AttributeError" >>

\* encode_state: the state string "status:context" as << status, context >>.
\* The branches are tried in order; the ninth reads inputs.additional_signals
\* and raises AttributeError on an object without that attribute.
encode_state(inputs) ==
    LET status == inputs.lead_status
        context ==
            IF inputs.last_interaction_status \in {"no_answer", "voicemail"}
            THEN "unreached"
            ELSE IF inputs.last_detected_intent \in {"declining"}
                    /\ inputs.last_sentiment = "negative"
            THEN "negative"
            ELSE IF inputs.last_detected_intent = "scheduling"
            THEN "scheduling_intent"
            ELSE IF inputs.last_detected_intent = "interested"
                    /\ inputs.last_sentiment = "positive"
            THEN "positive_engagement"
            ELSE IF inputs.financial_concern_level \in {"moderate", "high"}
            THEN "financial_concern"
            ELSE IF inputs.has_unaddressed_objections
            THEN "has_objections"
            ELSE IF inputs.has_pending_decision_makers \/ inputs.has_siblings
            THEN "family_context"
            ELSE IF inputs.last_detected_intent = "considering"
            THEN "considering"
            ELSE IF ~HasAttr(inputs, "additional_signals")
            THEN AttributeError[1]
            ELSE IF \E k \in DOMAIN inputs.additional_signals :
                        inputs.additional_signals[k].urgency \in {"moderate", "high"}
            THEN "novel_signal"
            ELSE "neutral"
    IN IF context = AttributeError[1] THEN AttributeError ELSE << status, context >>

\* [a for a in valid if a not in removed]
Without(valid, removed) == SelectSeq(valid, LAMBDA a : a \notin removed)

\* A filter that keeps only the actions some rule lets in, without fallback.
filter_valid_actions_strict(state, inputs) ==
    Without(SEMANTIC_ACTIONS,
            {"info_send", "gentle_nudge", "channel_switch", "wait"}
            \cup (IF inputs.lead_status # "enrolled" THEN {"welcome_onboard"} ELSE {})
            \cup (IF inputs.lead_status \notin {"active", "at_risk", "inactive"}
                  THEN {"retention_check_in"} ELSE {})
            \cup (IF ~inputs.has_pending_decision_makers /\ ~inputs.has_siblings
                  THEN {"family_engage"} ELSE {})
            \cup (IF inputs.financial_concern_level = "none"
                  THEN {"scholarship_outreach"} ELSE {})
            \cup (IF ~inputs.has_unaddressed_objections THEN {"objection_address"} ELSE {})
            \cup (IF ~inputs.has_phone /\ ~inputs.has_email
                  THEN {"scheduling_push", "warm_follow_up", "retention_check_in"} ELSE {})
            \cup (IF inputs.total_interactions < 3 THEN {"stop"} ELSE {}))

\* A filter whose stop rule reads "more than 3 interactions".
filter_valid_actions_late_stop(state, inputs) ==
    Without(SEMANTIC_ACTIONS,
            (IF inputs.lead_status # "enrolled" THEN {"welcome_onboard"} ELSE {})
            \cup (IF inputs.lead_status \notin {"active", "at_risk", "inactive"}
                  THEN {"retention_check_in"} ELSE {})
            \cup (IF ~inputs.has_pending_decision_makers /\ ~inputs.has_siblings
                  THEN {"family_engage"} ELSE {})
            \cup (IF inputs.financial_concern_level = "none"
                  THEN {"scholarship_outreach"} ELSE {})
            \cup (IF ~inputs.has_unaddressed_objections THEN {"objection_address"} ELSE {})
            \cup (IF ~inputs.has_phone /\ ~inputs.has_email
                  THEN {"scheduling_push", "warm_follow_up", "retention_check_in"} ELSE {})
            \cup (IF inputs.total_interactions <= 3 THEN {"stop"} ELSE {}))

\* filter_valid_actions: the catalog, thinned rule by rule, then the
\* fallback for an empty list.  The state argument is not read.
filter_valid_actions(state, inputs) ==
    LET status == inputs.lead_status
        v0 == SEMANTIC_ACTIONS
        v1 == IF status # "enrolled" THEN Without(v0, {"welcome_onboard"}) ELSE v0
        v2 == IF status \notin {"active", "at_risk", "inactive"}
              THEN Without(v1, {"retention_check_in"}) ELSE v1
        v3 == IF ~inputs.has_pending_decision_makers /\ ~inputs.has_siblings
              THEN Without(v2, {"family_engage"}) ELSE v2
        v4 == IF inputs.financial_concern_level = "none"
              THEN Without(v3, {"scholarship_outreach"}) ELSE v3
        v5 == IF ~inputs.has_unaddressed_objections
              THEN Without(v4, {"objection_address"}) ELSE v4
        v6 == IF ~inputs.has_phone /\ ~inputs.has_email
              THEN Without(v5, {"scheduling_push", "warm_follow_up", "retention_check_in"})
              ELSE v5
        v7 == IF inputs.total_interactions < 3 THEN Without(v6, {"stop"}) ELSE v6
    IN IF v7 = << >> THEN << "wait", "gentle_nudge" >> ELSE v7

\* ─── Calls of the policy functions on sampled arguments ─────────────────
\* PolicyInputs as its constructor builds it (the attributes the two
\* functions read, plus the counters and channel of the last interaction).
PolicyInputs(lead_status, total_interactions, last, has_phone, has_email, fin, obj, sib, dm) ==
    [ lead_status |-> lead_status,
      total_interactions |-> total_interactions,
      total_voice_attempts |-> 0,
      total_sms_attempts |-> 0,
      total_email_attempts |-> 0,
      last_interaction_channel |-> IF last[1] = None THEN None ELSE "sms",
      last_interaction_status |-> last[1],
      last_interaction_direction |-> IF last[1] = None THEN None ELSE "inbound",
      last_detected_intent |-> last[2],
      last_sentiment |-> last[3],
      hours_since_last_interaction |-> IF last[1] = None THEN NoTime ELSE 1,
      preferred_channel |-> None,
      has_phone |-> has_phone,
      has_email |-> has_email,
      financial_concern_level |-> fin,
      has_unaddressed_objections |-> obj,
      objection_topics |-> IF obj THEN {"cost"} ELSE {},
      has_scheduling_constraints |-> FALSE,
      has_siblings |-> sib,
      has_pending_decision_makers |-> dm ]

\* The last interaction of a lead: none, or one with a status and what the
\* extraction found in it.
LastSamples ==
    { << None, None, None >> }
    \cup ({"completed", "no_answer", "voicemail"}
          \X {"declining", "scheduling", "interested", "considering", "unclear"}
          \X Sentiments)

PolicyInputsSamples ==
    { PolicyInputs(st, IF x[1][1] = None THEN 0 ELSE x[2], x[1], ch[1], ch[2], fin, obj, fam[1], fam[2]) :
        st \in Statuses,
        x \in LastSamples \X {2, 3},
        ch \in { << TRUE, TRUE >>, << TRUE, FALSE >>, << FALSE, FALSE >> },
        fin \in {"none", "low", "moderate", "high"},
        obj \in BOOLEAN,
        fam \in { << FALSE, FALSE >>, << TRUE, FALSE >>, << FALSE, TRUE >> } }

\* The calls Init may hand out: a policy function on a PolicyInputs, or
\* compute_reward on a pair of statuses.
PolicyCalls ==
    { [ fn |-> f, inputs |-> i, done |-> FALSE ] :
        f \in {"encode_state", "filter_valid_actions"}, i \in PolicyInputsSamples }
    \cup { [ fn |-> "compute_reward", status_before |-> b, status_after |-> a, done |-> FALSE ] :
             b \in Statuses, a \in Statuses }

InitPolicy == InitRows /\ rl \in PolicyCalls

Pending(fn) == rl.fn = fn /\ ~rl.done

EncodeState ==
    /\ Pending("encode_state")
    /\ rl' = [ fn |-> rl.fn, inputs |-> rl.inputs, done |-> TRUE,
               state |-> encode_state(rl.inputs) ]
    /\ UNCHANGED << dbVars, checkTasks, now, procs, patches, lostTasks, flushLog, pipelineLog >>

FilterValidActions ==
    /\ Pending("filter_valid_actions")
    /\ rl' = [ fn |-> rl.fn, inputs |-> rl.inputs, done |-> TRUE,
               valid |-> filter_valid_actions(None, rl.inputs) ]
    /\ UNCHANGED << dbVars, checkTasks, now, procs, patches, lostTasks, flushLog, pipelineLog >>

ComputeReward ==
    /\ Pending("compute_reward")
    /\ rl' = [ fn |-> rl.fn, status_before |-> rl.status_before,
               status_after |-> rl.status_after, done |-> TRUE,
               reward |-> compute_reward(rl.status_before, rl.status_after) ]
    /\ UNCHANGED << dbVars, checkTasks, now, procs, patches, lostTasks, flushLog, pipelineLog >>

NextPolicy ==
    \/ EncodeState
    \/ FilterValidActions
    \/ ComputeReward

SpecPolicy == InitPolicy /\ [][NextPolicy]_vars

\* ─── Context artifacts and the PolicyInputs built from them ─────────────
\* What an extraction may carry in the dimensions that accumulate.
ContextExtractions ==
    { Extraction("unclear", "neutral", "high", {"cost"}, FALSE, FALSE, FALSE),
      Extraction("unclear", "neutral", "low", {"schedule"}, FALSE, FALSE, FALSE),
      Extraction("unclear", "neutral", "none", {}, FALSE, FALSE, FALSE),
      Extraction("unclear", "neutral", "moderate", {}, FALSE, TRUE, FALSE) }

Enrichments(arts, l) ==
    Cardinality({ a \in DOMAIN arts : arts[a].lead = l /\ arts[a].artifact_type = "summary" })

\* The store as _build_policy_inputs reads it for a lead.
StoredFor(l) ==
    [ lead |-> leads[l], last |-> LatestInteraction(interactions, l),
      interactions |-> interactions, artifacts |-> artifacts ]

BuildFrom(store, l, hours) ==
    build_policy_inputs(store.lead, l, store.interactions, store.last, hours, store.artifacts)

InitContext ==
    /\ InitRows
    /\ rl \in { [ fn |-> "build_policy_inputs", lead |-> l, done |-> FALSE, built |-> << >> ] :
                  l \in PipelineLeads }

\* enrich_from_extraction, called for the lead's latest interaction.
EnrichFrom(l, ex) ==
    /\ Pending("build_policy_inputs")
    /\ AllIdle
    /\ Enrichments(artifacts, l) < MaxEnrichments
    /\ artifacts' = enrich_from_extraction(artifacts, l, LatestInteraction(interactions, l), ex)
    /\ UNCHANGED << leads, interactions, events, decisions, scheduled, qtable, transitions,
                    smsBuffer, checkTasks, now, procs, patches, lostTasks, flushLog,
                    pipelineLog, rl >>

\* One call of _build_policy_inputs: it reads the store and writes nothing.
\* The snapshot is kept with the store it was built from; the second call
\* ends the run.
BuildPolicyInputs(hours) ==
    /\ Pending("build_policy_inputs")
    /\ AllIdle
    /\ rl' = [rl EXCEPT
                !.built = Append(@, [ store |-> StoredFor(rl.lead),
                                      inputs |-> BuildFrom(StoredFor(rl.lead), rl.lead, hours) ]),
                !.done = Len(rl.built) = 1]
    /\ UNCHANGED << dbVars, checkTasks, now, procs, patches, lostTasks, flushLog, pipelineLog >>

NextContext ==
    \/ \E p \in Procs, l \in PipelineLeads, inp \in InteractionInputs :
          /\ AllIdle /\ Free(p) /\ Pending("build_policy_inputs")
          /\ artifacts = << >> /\ rl.built = << >>
          /\ SubmitInteraction(p, l, inp)
    \/ \E p \in Procs : ProcessExtract(p)
    \/ \E p \in Procs : ProcessTransaction(p)
    \/ \E l \in PipelineLeads, ex \in ContextExtractions : EnrichFrom(l, ex)
    \/ \E hours \in HoursSamples : BuildPolicyInputs(hours)

SpecContext == InitContext /\ [][NextContext]_vars

\* ─── action_briefs.py: the brief built for a semantic action ────────────
\* The channel and the timing of each template; a template's texts are left
\* out, its name stands for them.
BRIEF_TEMPLATES ==
    [ warm_follow_up |-> [ name |-> "warm_follow_up", channel |-> "voice", base_timing_hours |-> 4 ],
      scheduling_push |-> [ name |-> "scheduling_push", channel |-> "voice", base_timing_hours |-> 1 ],
      scholarship_outreach |-> [ name |-> "scholarship_outreach", channel |-> "sms", base_timing_hours |-> 2 ],
      info_send |-> [ name |-> "info_send", channel |-> "sms", base_timing_hours |-> 2 ],
      gentle_nudge |-> [ name |-> "gentle_nudge", channel |-> "sms", base_timing_hours |-> 24 ],
      objection_address |-> [ name |-> "objection_address", channel |-> "sms", base_timing_hours |-> 12 ],
      welcome_onboard |-> [ name |-> "welcome_onboard", channel |-> "sms", base_timing_hours |-> 2 ],
      retention_check_in |-> [ name |-> "retention_check_in", channel |-> "voice", base_timing_hours |-> 48 ],
      family_engage |-> [ name |-> "family_engage", channel |-> "voice", base_timing_hours |-> 24 ],
      channel_switch |-> [ name |-> "channel_switch", channel |-> "sms", base_timing_hours |-> 12 ],
      wait |-> [ name |-> "wait", channel |-> "none", base_timing_hours |-> 48 ],
      stop |-> [ name |-> "stop", channel |-> "none", base_timing_hours |-> 0 ] ]

\* What a call hands back when it raises.
Raised(exception) == [ exception |-> exception ]

Raises(result) == "exception" \in DOMAIN result

\* min(available, key=available.get): the first of voice, sms, email among
\* the available channels that no available channel undercuts.
LeastAttempted(available, attempts) ==
    LET order == << "voice", "sms", "email" >>
        least(c) == c \in available /\ \A d \in available : attempts[c] <= attempts[d]
        k == CHOOSE i \in 1..3 : least(order[i]) /\ \A j \in 1..(i - 1) : ~least(order[j])
    IN order[k]

\* _determine_channel
determine_channel(semantic_action, inputs) ==
    LET base_channel == IF semantic_action \in DOMAIN BRIEF_TEMPLATES
                        THEN BRIEF_TEMPLATES[semantic_action].channel
                        ELSE "sms"
        attempts == [ voice |-> inputs.total_voice_attempts,
                      sms |-> inputs.total_sms_attempts,
                      email |-> inputs.total_email_attempts ]
        available == (IF inputs.has_phone THEN {"voice", "sms"} ELSE {})
                     \cup (IF inputs.has_email THEN {"email"} ELSE {})
    IN IF base_channel = "none" THEN "none"
       ELSE IF semantic_action = "channel_switch"
       THEN IF available # {} THEN LeastAttempted(available, attempts) ELSE "sms"
       ELSE IF /\ inputs.preferred_channel # None
               /\ base_channel = "voice"
               /\ inputs.preferred_channel \in {"sms", "email"}
       THEN inputs.preferred_channel
       ELSE IF /\ inputs.preferred_channel # None
               /\ base_channel = "sms"
               /\ inputs.preferred_channel = "email"
       THEN "email"
       ELSE IF base_channel = "voice" /\ ~inputs.has_phone
       THEN IF inputs.has_email THEN "email" ELSE "sms"
       ELSE IF base_channel = "sms" /\ ~inputs.has_phone
       THEN IF inputs.has_email THEN "email" ELSE "voice"
       ELSE IF base_channel = "email" /\ ~inputs.has_email
       THEN IF inputs.has_phone THEN "sms" ELSE "voice"
       ELSE base_channel

\* _determine_priority; q_value in units of 1/QScale.
determine_priority(q_value, semantic_action, inputs) ==
    IF semantic_action = "scheduling_push" THEN "high"
    ELSE IF 2 * q_value > QScale THEN "high"
    ELSE IF semantic_action \in {"objection_address", "retention_check_in", "channel_switch"}
    THEN "high"
    ELSE IF inputs.lead_status = "at_risk" THEN "high"
    ELSE IF semantic_action \in {"warm_follow_up", "scholarship_outreach",
                                 "welcome_onboard", "family_engage"}
    THEN "normal"
    ELSE IF inputs.lead_status \in {"interested", "trial", "enrolled"} THEN "normal"
    ELSE IF 5 * q_value > QScale THEN "normal"
    ELSE "low"

\* _enrich_with_context: the signals of the directives it adds, or the
\* exception of its loop over inputs.additional_signals.
enrich_with_context(brief, inputs) ==
    IF brief.semantic_action \in {"wait", "stop"} THEN brief
    ELSE IF ~HasAttr(inputs, "additional_signals") THEN Raised("AttributeError")
    ELSE [brief EXCEPT !.signals =
            (IF /\ inputs.financial_concern_level \in {"moderate", "high"}
                /\ brief.semantic_action # "scholarship_outreach"
             THEN {"financial_concern"} ELSE {})
            \cup (IF inputs.has_siblings THEN {"sibling_opportunity"} ELSE {})
            \cup (IF inputs.has_pending_decision_makers /\ brief.semantic_action # "family_engage"
                  THEN {"pending_decision_maker"} ELSE {})
            \cup (IF inputs.has_scheduling_constraints THEN {"scheduling_constraints"} ELSE {})
            \cup (IF inputs.has_unaddressed_objections /\ brief.semantic_action # "objection_address"
                  THEN {"unaddressed_objection"} ELSE {})
            \cup { sig.signal : sig \in { g \in inputs.additional_signals :
                                            g.urgency \in {"moderate", "high"} } }]

\* build_action_brief.  _build_signal_context reads
\* len(inputs.additional_signals) for every action, wait and stop included.
build_action_brief(semantic_action, inputs, state, q_value) ==
    LET known == semantic_action \in DOMAIN BRIEF_TEMPLATES
        template == IF known THEN BRIEF_TEMPLATES[semantic_action]
                    ELSE BRIEF_TEMPLATES["gentle_nudge"]
        action == IF known THEN semantic_action ELSE "gentle_nudge"
        brief == [ semantic_action |-> action,
                   channel |-> determine_channel(action, inputs),
                   priority |-> determine_priority(q_value, action, inputs),
                   scheduled |-> template.base_timing_hours > 0,
                   template |-> template.name,
                   signals |-> {},
                   state |-> state,
                   q_value |-> q_value ]
        enriched == enrich_with_context(brief, inputs)
    IN IF Raises(enriched) THEN enriched
       ELSE IF ~HasAttr(inputs, "additional_signals") THEN Raised("AttributeError")
       ELSE enriched

\* ─── Calls of the brief builder on sampled arguments ────────────────────
\* PolicyInputs of leads that differ in contact methods, preferred channel
\* and attempts per channel.
BriefInputsSamples ==
    { [ PolicyInputs(st, 2, << "completed", "interested", "positive" >>,
                     ch[1], ch[2], fin, FALSE, sib, FALSE)
          EXCEPT !.preferred_channel = pref,
                 !.total_voice_attempts = att[1],
                 !.total_sms_attempts = att[2],
                 !.total_email_attempts = att[3] ] :
        st \in {"new", "at_risk"},
        ch \in BOOLEAN \X BOOLEAN,
        fin \in {"none", "high"},
        sib \in BOOLEAN,
        pref \in {None} \cup Channels,
        att \in { << 0, 0, 0 >>, << 2, 1, 0 >>, << 1, 1, 2 >>, << 2, 0, 0 >> } }

\* Semantic actions a caller may pass: the catalog and a name outside it.
BriefActions == DOMAIN BRIEF_TEMPLATES \cup {"upsell_blast"}

BriefCalls ==
    { [ fn |-> f, semantic_action |-> a, inputs |-> i, done |-> FALSE ] :
        f \in {"build_action_brief", "determine_channel"},
        a \in BriefActions, i \in BriefInputsSamples }

InitBrief == InitRows /\ rl \in BriefCalls

BuildActionBrief ==
    /\ Pending("build_action_brief")
    /\ \E q_value \in {0, 6000000} :
          rl' = [ fn |-> rl.fn, semantic_action |-> rl.semantic_action, inputs |-> rl.inputs,
                  done |-> TRUE,
                  brief |-> build_action_brief(rl.semantic_action, rl.inputs,
                                               "new:neutral", q_value) ]
    /\ UNCHANGED << dbVars, checkTasks, now, procs, patches, lostTasks, flushLog, pipelineLog >>

DetermineChannel ==
    /\ Pending("determine_channel")
    /\ rl' = [ fn |-> rl.fn, semantic_action |-> rl.semantic_action, inputs |-> rl.inputs,
               done |-> TRUE,
               channel |-> determine_channel(rl.semantic_action, rl.inputs) ]
    /\ UNCHANGED << dbVars, checkTasks, now, procs, patches, lostTasks, flushLog, pipelineLog >>

NextBrief ==
    \/ BuildActionBrief
    \/ DetermineChannel

SpecBrief == InitBrief /\ [][NextBrief]_vars

\* ─── _derive_lead_status applied interaction after interaction ──────────
\* What the extraction may report as intent: the listed intents, "attending"
\* of the status table, and an answer outside the list.
IntentInputs == Intents \cup {"attending", "signing_up"}

\* A lead of any status (the API sets statuses as well) whose interactions
\* are applied to its status one after the other; the last one is kept.
InitFunnel ==
    /\ InitRows
    /\ rl \in { [ fn |-> "derive_lead_status", done |-> FALSE, steps |-> 0,
                  lead_status |-> st, status_before |-> None,
                  intent |-> None, interaction_status |-> None ] : st \in Statuses }

DeriveLeadStatus(intent, interaction_status) ==
    /\ Pending("derive_lead_status")
    /\ rl.steps < MaxDerivations
    /\ rl' = [rl EXCEPT
                !.steps = @ + 1,
                !.status_before = rl.lead_status,
                !.intent = intent,
                !.interaction_status = interaction_status,
                !.lead_status = derive_lead_status(rl.lead_status, intent, interaction_status)]
    /\ UNCHANGED << dbVars, checkTasks, now, procs, patches, lostTasks, flushLog, pipelineLog >>

NextFunnel ==
    \E intent \in IntentInputs, interaction_status \in InteractionStatuses :
        DeriveLeadStatus(intent, interaction_status)

SpecFunnel == InitFunnel /\ [][NextFunnel]_vars

\* ─── _update_q_table_from_transition on a decision that carries a state ─
\* The context bucket of the state the previous decision was made in.
ContextSamples == {"neutral", "unreached", "scheduling_intent"}

\* The interaction being processed: its status with the intent and the
\* sentiment extracted from it (nothing is said in an unanswered call).
LearnSamples ==
    ({"completed"} \X Intents \X Sentiments)
    \cup ({"no_answer", "voicemail"} \X {"no_response"} \X {"neutral"})

\* The lead's current decision, with the state it was made in as rl_state.
PreviousDecision(state) ==
    [ CreateDecision(<< >>, "l1",
                     [ action |-> "warm_follow_up", channel |-> "voice",
                       priority |-> "normal", rule_name |-> "rl_policy",
                       scheduled_for |-> NoTime ], None)[1]
      EXCEPT !.rl_state = state ]

InitLearn ==
    /\ rl \in { [ fn |-> "update_q_table_from_transition", done |-> FALSE,
                  old_status |-> st, context |-> c,
                  interaction_status |-> x[1], intent |-> x[2], sentiment |-> x[3] ] :
                st \in {"new", "contacted", "interested", "trial"},
                c \in ContextSamples, x \in LearnSamples }
    /\ leads = [ l \in Leads |->
                   IF l = "l1" THEN [NewLead EXCEPT !.status = rl.old_status] ELSE NewLead ]
    /\ decisions = << PreviousDecision(<< rl.old_status, rl.context >>) >>
    /\ interactions = << >>
    /\ events = [ l \in Leads |-> << >> ]
    /\ artifacts = << >>
    /\ scheduled = << >>
    /\ qtable = SeededQ
    /\ transitions = << >>
    /\ smsBuffer = << >>
    /\ checkTasks = [ l \in Leads |-> 0 ]
    /\ now = 0
    /\ procs = [ p \in Procs |-> IdleProc ]
    /\ patches = 0
    /\ lostTasks = 0
    /\ flushLog = << >>
    /\ pipelineLog = << >>

\* Steps 4 and 5 of process_interaction for the interaction, and the state
\* of the inputs the decision of step 6 is made from: the lead with its new
\* status and the interaction as its last one.
UpdateFromTransition ==
    /\ Pending("update_q_table_from_transition")
    /\ LET new_status == derive_lead_status(rl.old_status, rl.intent, rl.interaction_status)
           learned == update_q_table_from_transition(decisions, qtable, transitions, "l1",
                                                     rl.old_status, new_status)
           inputs == PolicyInputs(new_status, 1,
                                  << rl.interaction_status, rl.intent, rl.sentiment >>,
                                  TRUE, TRUE, "none", FALSE, FALSE, FALSE)
       IN /\ leads' = [leads EXCEPT !["l1"].status = new_status]
          /\ qtable' = learned[1]
          /\ transitions' = learned[2]
          /\ rl' = [ fn |-> rl.fn, done |-> TRUE,
                     old_status |-> rl.old_status, context |-> rl.context,
                     interaction_status |-> rl.interaction_status,
                     intent |-> rl.intent, sentiment |-> rl.sentiment,
                     new_status |-> new_status, next_state |-> encode_state(inputs) ]
    /\ UNCHANGED << interactions, events, artifacts, decisions, scheduled, smsBuffer,
                    checkTasks, now, procs, patches, lostTasks, flushLog, pipelineLog >>

NextLearn == UpdateFromTransition

SpecLearn == InitLearn /\ [][NextLearn]_vars

\* ─── rl_engine.py: select_action ────────────────────────────────────────
UCB_C == 1

\* math.log(k) in units of 1e-8, for the visit totals the model reaches.
Log(k) ==
    CASE k = 1 -> 0
      [] k = 2 -> 69314718
      [] k = 3 -> 109861229
      [] k = 4 -> 138629436
      [] k = 5 -> 160943791
      [] k = 6 -> 179175947
      [] k = 7 -> 194591015
      [] OTHER -> 207944154

RECURSIVE SqrtBetween(_, _, _)
SqrtBetween(x, lo, hi) ==
    IF lo = hi THEN lo
    ELSE LET mid == (lo + hi + 1) \div 2
         IN IF mid * mid <= x THEN SqrtBetween(x, mid, hi) ELSE SqrtBetween(x, lo, mid - 1)

\* math.sqrt of a ratio given in units of 1e-8; the result in units of 1e-4.
Sqrt(x) == SqrtBetween(x, 0, 15000)

\* An exploration term without the bonus for untried actions.
exploration_unforced(total_visits, visit_count) ==
    IF visit_count = 0 THEN 0
    ELSE UCB_C * Sqrt(Log(total_visits + 1) \div visit_count) * (QScale \div 10000)

\* The exploration term of the UCB score, in the unit of the Q-table.
exploration(total_visits, visit_count) ==
    IF visit_count = 0 THEN UCB_C * 2 * QScale
    ELSE UCB_C * Sqrt(Log(total_visits + 1) \div visit_count) * (QScale \div 10000)

\* get_all_q_values: the stored rows of the state, and an unsaved default
\* row for every catalog action without one.
get_all_q_values(qt, state) ==
    [ a \in { SEMANTIC_ACTIONS[k] : k \in DOMAIN SEMANTIC_ACTIONS } |->
        IF << state, a >> \in DOMAIN qt THEN qt[<< state, a >>] ELSE NewQEntry ]

RECURSIVE SumVisits(_, _)
SumVisits(q_values, actions) ==
    IF actions = << >> THEN 0
    ELSE (IF Head(actions) \in DOMAIN q_values THEN q_values[Head(actions)].visit_count ELSE 0)
         + SumVisits(q_values, Tail(actions))

\* A loop that lets a later candidate of equal score take over.
RECURSIVE SelectLoopLast(_, _, _, _)
SelectLoopLast(q_values, total_visits, actions, best) ==
    IF actions = << >> THEN << best.action, best.q >>
    ELSE LET action == Head(actions)
             known == action \in DOMAIN q_values
             exploitation == IF known THEN q_values[action].q_value ELSE 0
             visit_count == IF known THEN q_values[action].visit_count ELSE 0
             ucb_score == exploitation + exploration(total_visits, visit_count)
         IN IF best.score = << >> \/ ucb_score >= best.score[1]
            THEN SelectLoopLast(q_values, total_visits, Tail(actions),
                                [ action |-> action, q |-> exploitation, score |-> << ucb_score >> ])
            ELSE SelectLoopLast(q_values, total_visits, Tail(actions), best)

\* The loop of select_action over the actions left; best is
\* [action, q, score], score = None standing for minus infinity.
RECURSIVE SelectLoop(_, _, _, _)
SelectLoop(q_values, total_visits, actions, best) ==
    IF actions = << >> THEN << best.action, best.q >>
    ELSE LET action == Head(actions)
             known == action \in DOMAIN q_values
             exploitation == IF known THEN q_values[action].q_value ELSE 0
             visit_count == IF known THEN q_values[action].visit_count ELSE 0
             ucb_score == exploitation + exploration(total_visits, visit_count)
         IN IF best.score = << >> \/ ucb_score > best.score[1]
            THEN SelectLoop(q_values, total_visits, Tail(actions),
                            [ action |-> action, q |-> exploitation, score |-> << ucb_score >> ])
            ELSE SelectLoop(q_values, total_visits, Tail(actions), best)

\* select_action: << best_action, best_q >>.  An available_actions of None
\* is the empty list here: "available_actions or SEMANTIC_ACTIONS" treats
\* the two alike.
select_action(qt, state, available_actions) ==
    LET actions == IF available_actions = << >>
                   THEN SEMANTIC_ACTIONS ELSE available_actions
        q_values == get_all_q_values(qt, state)
        total_visits == SumVisits(q_values, actions)
    IN SelectLoop(q_values, total_visits, actions,
                  [ action |-> actions[1], q |-> 0, score |-> << >> ])

\* ─── Selection on a Q-table that sequential updates have built ──────────
UcbState == << "interested", "scheduling_intent" >>
UcbActions == { "scheduling_push", "warm_follow_up" }
UcbStatuses == { << "interested", "interested" >>, << "interested", "trial" >> }

\* Candidate lists: the whole catalog, and what the filter leaves for an
\* interested lead with and without a contact channel.
UcbCandidates ==
    { << >> }
    \cup { filter_valid_actions(UcbState,
               PolicyInputs("interested", 2, << "completed", "scheduling", "neutral" >>,
                            ch, FALSE, "none", FALSE, FALSE, FALSE)) : ch \in BOOLEAN }

InitUcb ==
    /\ InitRows
    /\ rl \in { [ fn |-> "select_action", state |-> UcbState, available_actions |-> c,
                  done |-> FALSE ] : c \in UcbCandidates }

\* One update_q_table call, from entry to commit.
UcbUpdate(l, action_taken, statuses) ==
    /\ Pending("select_action")
    /\ Len(transitions) < MaxQUpdates
    /\ LET r == update_q_table(qtable, transitions, l, 0, rl.state, action_taken,
                               StateAfter(rl.state, statuses[2]), statuses[1], statuses[2])
       IN qtable' = r[1] /\ transitions' = r[2]
    /\ UNCHANGED << leads, interactions, events, artifacts, decisions, scheduled,
                    smsBuffer, checkTasks, now, procs, patches, lostTasks, flushLog,
                    pipelineLog, rl >>

\* A read that saves the default entry of every action it finds missing.
StoredAfterReadsSaved(qt, state) ==
    [ k \in DOMAIN qt \cup { << state, SEMANTIC_ACTIONS[i] >> : i \in DOMAIN SEMANTIC_ACTIONS } |->
        IF k \in DOMAIN qt THEN qt[k] ELSE NewQEntry ]

\* The stored Q-table after get_all_q_values has read a state: the entries
\* it makes up for missing actions are QValue objects that are never saved.
StoredAfterReads(qt, state) == qt

SelectAction ==
    /\ Pending("select_action")
    /\ LET r == select_action(qtable, rl.state, rl.available_actions)
       IN rl' = [ fn |-> rl.fn, state |-> rl.state,
                  available_actions |-> rl.available_actions, done |-> TRUE,
                  action |-> r[1], q_value |-> r[2] ]
    /\ qtable' = StoredAfterReads(qtable, rl.state)
    /\ UNCHANGED << leads, interactions, events, artifacts, decisions, scheduled, transitions,
                    smsBuffer, checkTasks, now, procs, patches, lostTasks, flushLog,
                    pipelineLog >>

NextUcb ==
    \/ \E a \in UcbActions, st \in UcbStatuses : UcbUpdate("l1", a, st)
    \/ SelectAction

SpecUcb == InitUcb /\ [][NextUcb]_vars

\* ═══ Claims ═════════════════════════════════════════════════════════════
CurrentOf(l) == { d \in DOMAIN decisions : decisions[d].lead = l /\ decisions[d].is_current }
DecisionsOf(l) == { d \in DOMAIN decisions : decisions[d].lead = l }

NoPendingOnSuperseded ==
    \A a \in DOMAIN scheduled :
        scheduled[a].status = "pending" =>
            decisions[scheduled[a].nba_decision].status # "superseded"

\* The lead is under the compliance override: status declined, or the
\* latest interaction has status opted_out.
UnderOverride(l) ==
    \/ leads[l].status = "declined"
    \/ /\ LatestInteraction(interactions, l) # 0
       /\ interactions[LatestInteraction(interactions, l)].status = "opted_out"

IsStop(result) ==
    result.action = "stop" /\ result.channel = None /\ result.priority = "low"

\* C1: for a lead whose status is declined or whose last interaction is
\* opted_out, the decision a recompute produces is the terminal action
\* "stop" (channel none, priority low), and every decision persisted under
\* a compliance rule is "stop" with q-value 0.
C1_OverrideDecidesStop ==
    /\ \A p \in Procs :
          (procs[p].pc = "persist_select" /\ UnderOverride(procs[p].lead))
              => IsStop(procs[p].result)
    /\ \A d \in DOMAIN decisions :
          decisions[d].rule_name \in {"terminal_state", "opted_out"}
              => (decisions[d].action = "stop" /\ decisions[d].rl_q_value = << 0 >>)

\* C2: once a lead is declined it stays declined through every processed
\* interaction and recompute (operator edits aside), and every decision
\* made for it from then on is the terminal stop decision.
C2_DeclinedStaysStopped ==
    [][ \A l \in Leads :
          (leads[l].status = "declined" /\ patches' = patches) =>
             /\ leads'[l].status = "declined"
             /\ \A d \in DOMAIN decisions' :
                   (d \notin DOMAIN decisions /\ decisions'[d].lead = l)
                       => decisions'[d].action = "stop" ]_vars

\* C5: when no request is in flight, a lead that has decisions has exactly
\* one current decision, the latest; every earlier one is superseded and
\* not current; and no pending scheduled action belongs to a superseded
\* decision.
C5_OneCurrentDecision ==
    AllIdle =>
        /\ \A l \in Leads :
              DecisionsOf(l) # {} =>
                 /\ Cardinality(CurrentOf(l)) = 1
                 /\ \A d \in DecisionsOf(l) :
                       IF \A o \in DecisionsOf(l) : o <= d
                       THEN decisions[d].is_current /\ decisions[d].status = "pending"
                       ELSE ~decisions[d].is_current /\ decisions[d].status = "superseded"
        /\ NoPendingOnSuperseded

\* C5 witness: a decision was superseded by a later one, its pending
\* follow-up was cancelled and the later decision has its own.
C5_Witness ==
    /\ AllIdle
    /\ Len(decisions) >= 2
    /\ \E a \in DOMAIN scheduled : scheduled[a].status = "cancelled"
    /\ \E a \in DOMAIN scheduled : scheduled[a].status = "pending"

\* C6: with force-recomputes of one lead running concurrently, once they
\* have all finished the lead has at most one current decision and no
\* pending scheduled action tied to a superseded decision.
C6_RecomputeSerialized ==
    AllIdle =>
        /\ \A l \in Leads : Cardinality(CurrentOf(l)) <= 1
        /\ NoPendingOnSuperseded

\* C7: per lead, the StateTransition rows are exactly as many as the
\* processed interactions that found a previous decision of the lead
\* (none for a first-ever interaction, one for each later one).
C7_OneTransitionPerRewardable ==
    \A l \in Leads :
        Cardinality({ t \in DOMAIN transitions : transitions[t].lead = l })
          = Cardinality({ e \in DOMAIN pipelineLog :
                            pipelineLog[e].lead = l /\ pipelineLog[e].had_previous })

RECURSIVE SumRewards(_, _)
SumRewards(trs, key) ==
    IF trs = << >> THEN 0
    ELSE (IF << Head(trs).state_before, Head(trs).action_taken >> = key
          THEN Head(trs).reward ELSE 0) + SumRewards(Tail(trs), key)

UpdatesOf(key) ==
    { t \in DOMAIN transitions :
        << transitions[t].state_before, transitions[t].action_taken >> = key }

\* C3: with reward updates of one (state, action) entry running
\* concurrently, once k of them have completed the entry's visit count has
\* grown by exactly k and its cumulative reward by the sum of the k rewards.
C3_NoLostUpdate ==
    AllIdle =>
        \A key \in DOMAIN qtable :
            /\ qtable[key].visit_count = Cardinality(UpdatesOf(key))
            /\ qtable[key].total_reward = SumRewards(transitions, key)

\* ─── The SMS batcher ────────────────────────────────────────────────────
RowsOf(l) == { b \in DOMAIN smsBuffer : smsBuffer[b].lead = l }

\* C4: two flushes of one lead never hold the lead's rows at the same
\* time, no buffered message is part of more than one combined transcript,
\* and the pipeline is invoked at most once per batch (per anchor).
C4_NoDoubleFlush ==
    /\ \A p, q \in Procs :
          (p # q /\ procs[p].pc = "flush_commit" /\ procs[q].pc = "flush_commit")
              => procs[p].lead # procs[q].lead
    /\ \A i, j \in DOMAIN flushLog :
          i < j => /\ flushLog[i].transcript \cap flushLog[j].transcript = {}
                   /\ flushLog[i].anchor # flushLog[j].anchor
    /\ \A i, j \in DOMAIN pipelineLog :
          (i < j /\ pipelineLog[i].origin # "api" /\ pipelineLog[j].origin # "api")
              => pipelineLog[i].interaction # pipelineLog[j].interaction

\* C4 witness: two checks have both decided to flush the lead's thread; one
\* holds the rows and the other waits for them.
C4_Witness ==
    \E p, q \in Procs :
        /\ procs[p].pc = "flush_commit" /\ procs[q].pc = "flush_lock"
        /\ procs[p].lead = procs[q].lead
        /\ procs[p].origin = "check" /\ procs[q].origin = "check"
        /\ Cardinality(procs[p].ids) = 2

\* C8: when the pipeline a flush invoked has failed, the batch is not left
\* marked flushed with no decision produced for its anchor interaction.
C8_NoSilentDrop ==
    \A e \in DOMAIN pipelineLog :
        (pipelineLog[e].origin # "api" /\ pipelineLog[e].outcome # "committed") =>
            \A f \in DOMAIN flushLog :
                flushLog[f].anchor = pipelineLog[e].interaction =>
                    \/ \E b \in flushLog[f].transcript : ~smsBuffer[b].flushed
                    \/ \E d \in DOMAIN decisions :
                          decisions[d].interaction = pipelineLog[e].interaction

\* C9: under the fair sweep every buffered message is eventually marked
\* flushed, whatever happens to the check_sms_flush tasks.
C9_EventuallyFlushed ==
    \A b \in 1..MaxMessages :
        (b \in DOMAIN smsBuffer) ~> (b \in DOMAIN smsBuffer /\ smsBuffer[b].flushed)

\* C9 witness: every message was non-urgent, every recheck task was lost,
\* and the sweep alone flushed the thread.
C9_Witness ==
    /\ Len(smsBuffer) >= 2
    /\ \A b \in DOMAIN smsBuffer : ~smsBuffer[b].is_urgent /\ smsBuffer[b].flushed
    /\ lostTasks = Len(smsBuffer)
    /\ \A l \in Leads : checkTasks[l] = 0
    /\ flushLog # << >>
    /\ \A f \in DOMAIN flushLog : flushLog[f].origin = "sweep"

NonUrgentThread(l) ==
    Unflushed(l) # {} /\ \A b \in Unflushed(l) : ~smsBuffer[b].is_urgent

\* Fewer than 6 buffered, the oldest younger than 15 minutes and the newest
\* younger than 5 minutes.
BelowThresholds(l) ==
    /\ Cardinality(Unflushed(l)) < 6
    /\ now - Oldest(Unflushed(l)) < 15
    /\ now - Newest(Unflushed(l)) < 5

FlushedLead == flushLog'[Len(flushLog')].lead

\* C10 as stated: no flush of a thread of non-urgent messages marks the
\* rows while fewer than 6 are buffered, the oldest is younger than 15
\* minutes and the newest younger than 5 minutes.
C10_NoFlushBelowThresholds ==
    [][ (flushLog' # flushLog /\ NonUrgentThread(FlushedLead))
            => ~BelowThresholds(FlushedLead) ]_vars

\* C10 amended: a check starts a flush only when, as it reads the buffer,
\* 6 messages are buffered, the oldest is 15 minutes old or the newest is 5
\* minutes old, and the sweep selects only leads whose oldest message is 15
\* minutes old; so a lead that received fewer than 6 messages, none of them
\* urgent, has no flush before its first message is 5 minutes old.
C10_FlushStartedAtThreshold ==
    [][ /\ \A p \in Procs :
              (procs[p].pc = "idle" /\ procs'[p].pc = "flush_lock"
                  /\ procs'[p].origin = "check")
                 => (Unflushed(procs'[p].lead) # {} /\ ~BelowThresholds(procs'[p].lead))
        /\ \A p \in Procs :
              (procs[p].pc = "idle" /\ procs'[p].pc = "sweep_next")
                 => \A l \in procs'[p].todo :
                       Unflushed(l) # {} /\ now - Oldest(Unflushed(l)) >= 15
        /\ (flushLog' # flushLog
              /\ Cardinality(RowsOf(FlushedLead)) < 6
              /\ \A b \in RowsOf(FlushedLead) : ~smsBuffer[b].is_urgent)
                 => now - Oldest(RowsOf(FlushedLead)) >= 5 ]_vars

\* C10 witness: messages that arrived at minutes 0 and 1, none urgent, were
\* flushed together by a check.
C10_Witness ==
    \E f \in DOMAIN flushLog :
        /\ flushLog[f].origin = "check"
        /\ \E b, c \in flushLog[f].transcript :
              smsBuffer[b].received_at = 0 /\ smsBuffer[c].received_at = 1
        /\ \A b \in flushLog[f].transcript : ~smsBuffer[b].is_urgent


\* C11: once 6 messages of a lead are buffered, the thread is flushed by
\* the queued checks alone, with the clock still below the quiet period.
C11_FlushOnSixth ==
    \A l \in BatchLeads :
        (Cardinality(Unflushed(l)) >= 6) ~> (Unflushed(l) = {})

\* C11 witness: a check flushed a thread of 6 messages, all received
\* within minutes 0 and 1, before minute 5.
C11_Witness ==
    /\ now < 5
    /\ \E f \in DOMAIN flushLog :
          /\ flushLog[f].origin = "check"
          /\ Cardinality(flushLog[f].transcript) = 6
          /\ \A b \in flushLog[f].transcript :
                smsBuffer[b].flushed /\ ~smsBuffer[b].is_urgent /\ smsBuffer[b].received_at <= 1

\* The arrival request of an urgent message of the lead is still flushing.
UrgentRequestOpen(l) ==
    \E p \in Procs : /\ procs[p].origin = "urgent" /\ procs[p].lead = l
                      /\ procs[p].pc \in {"flush_lock", "flush_commit"}

\* C12: when the arrival request of an urgent message has done its flush,
\* the urgent message and every message of the lead that arrived before it
\* are marked flushed, and the urgent message is part of a combined
\* transcript handed to the pipeline.
C12_UrgentFlushedInRequest ==
    \A l \in BatchLeads : \A u \in RowsOf(l) :
        (smsBuffer[u].is_urgent /\ ~UrgentRequestOpen(l)) =>
            /\ \A b \in RowsOf(l) : b <= u => smsBuffer[b].flushed
            /\ \E f \in DOMAIN flushLog : u \in flushLog[f].transcript

\* ─── The policy functions ───────────────────────────────────────────────
Called(fn) == rl.fn = fn /\ rl.done

\* The rules of the action filter, action by action.
Kept(a, inputs) ==
    CASE a = "welcome_onboard" -> inputs.lead_status = "enrolled"
      [] a = "retention_check_in" ->
            /\ inputs.lead_status \in {"active", "at_risk", "inactive"}
            /\ inputs.has_phone \/ inputs.has_email
      [] a = "family_engage" -> inputs.has_siblings \/ inputs.has_pending_decision_makers
      [] a = "scholarship_outreach" -> inputs.financial_concern_level # "none"
      [] a = "objection_address" -> inputs.has_unaddressed_objections
      [] a \in {"scheduling_push", "warm_follow_up"} -> inputs.has_phone \/ inputs.has_email
      [] a = "stop" -> inputs.total_interactions >= 3
      [] OTHER -> TRUE

Range(seq) == { seq[k] : k \in DOMAIN seq }

\* C13: the list filter_valid_actions returns is never empty, and when no
\* catalog action passes the rules it is wait, gentle_nudge.
C13_FilteredNeverEmpty ==
    Called("filter_valid_actions") =>
        /\ rl.valid # << >>
        /\ (\A k \in DOMAIN SEMANTIC_ACTIONS : ~Kept(SEMANTIC_ACTIONS[k], rl.inputs))
              => rl.valid = << "wait", "gentle_nudge" >>

\* The filter has removed every action a rule can remove.
C13_Witness ==
    /\ Called("filter_valid_actions")
    /\ Range(rl.valid) = {"info_send", "gentle_nudge", "channel_switch", "wait"}

\* C14: filter_valid_actions returns the catalog actions its rules keep,
\* each once and in catalog order.
C14_FilterIsTheRules ==
    Called("filter_valid_actions") =>
        rl.valid = SelectSeq(SEMANTIC_ACTIONS, LAMBDA a : Kept(a, rl.inputs))

\* A lead at risk with every signal present and three interactions: eleven
\* actions are kept; without a contact channel three more go.
C14_Witness ==
    /\ Called("filter_valid_actions")
    /\ rl.inputs.total_interactions = 3
    /\ rl.inputs.lead_status = "at_risk"
    /\ ~rl.inputs.has_phone /\ ~rl.inputs.has_email
    /\ rl.valid = << "scholarship_outreach", "info_send", "gentle_nudge",
                     "objection_address", "family_engage", "channel_switch",
                     "wait", "stop" >>

\* The ten buckets in their order of precedence.
Buckets ==
    << "unreached", "negative", "scheduling_intent", "positive_engagement",
       "financial_concern", "has_objections", "family_context", "considering",
       "novel_signal", "neutral" >>

\* What qualifies an input for a bucket.
Matches(b, inputs) ==
    CASE b = "unreached" -> inputs.last_interaction_status \in {"no_answer", "voicemail"}
      [] b = "negative" ->
            inputs.last_detected_intent = "declining" /\ inputs.last_sentiment = "negative"
      [] b = "scheduling_intent" -> inputs.last_detected_intent = "scheduling"
      [] b = "positive_engagement" ->
            inputs.last_detected_intent = "interested" /\ inputs.last_sentiment = "positive"
      [] b = "financial_concern" -> inputs.financial_concern_level \in {"moderate", "high"}
      [] b = "has_objections" -> inputs.has_unaddressed_objections
      [] b = "family_context" -> inputs.has_pending_decision_makers \/ inputs.has_siblings
      [] b = "considering" -> inputs.last_detected_intent = "considering"
      [] b = "novel_signal" ->
            /\ HasAttr(inputs, "additional_signals")
            /\ \E k \in DOMAIN inputs.additional_signals :
                  inputs.additional_signals[k].urgency \in {"moderate", "high"}
      [] OTHER -> TRUE

FirstMatching(inputs) ==
    Buckets[CHOOSE k \in DOMAIN Buckets :
               /\ Matches(Buckets[k], inputs)
               /\ \A j \in 1..(k - 1) : ~Matches(Buckets[j], inputs)]

\* C15: encode_state returns status:bucket for every PolicyInputs, the
\* bucket being the first of the ten, in their order of precedence, that
\* the input qualifies for.
C15_EncodesEveryInput ==
    Called("encode_state") =>
        rl.state = << rl.inputs.lead_status, FirstMatching(rl.inputs) >>

\* C18: the rewards are ordered trial->enrolled > interested->trial >
\* new->contacted > 0 > active->at_risk > X->declined, for every status X.
C18_RewardOrder ==
    /\ Called("compute_reward") =>
          LET t == << rl.status_before, rl.status_after >>
              r == rl.reward
          IN /\ t = << "trial", "enrolled" >> => r > compute_reward("interested", "trial")
             /\ t = << "interested", "trial" >> =>
                   /\ r < compute_reward("trial", "enrolled")
                   /\ r > compute_reward("new", "contacted")
             /\ t = << "new", "contacted" >> =>
                   r < compute_reward("interested", "trial") /\ r > 0
             /\ t = << "active", "at_risk" >> =>
                   /\ r < 0
                   /\ \A x \in Statuses : r > compute_reward(x, "declined")
             /\ rl.status_after = "declined" => r < compute_reward("active", "at_risk")

\* A lead already declined is declined again.
C18_Witness ==
    /\ Called("compute_reward")
    /\ rl.status_before = "declined" /\ rl.status_after = "declined"
    /\ rl.reward < compute_reward("active", "at_risk")

\* C19 as stated: every unchanged status is rewarded with the stall
\* penalty of -0.02.
C19_StallForEveryStatus ==
    (Called("compute_reward") /\ rl.status_before = rl.status_after)
        => rl.reward = STALL_REWARD

\* C19: every unchanged status other than declined is rewarded with the
\* stall penalty of -0.02; declined to declined is rewarded -1.0.
C19_StallUnlessDeclined ==
    (Called("compute_reward") /\ rl.status_before = rl.status_after)
        => rl.reward = IF rl.status_after = "declined" THEN 0 - 100 ELSE 0 - 2

C19_Witness ==
    /\ Called("compute_reward")
    /\ rl.status_before = "at_risk" /\ rl.status_after = "at_risk"
    /\ rl.reward = 0 - 2

\* The stored value of a Q entry, 0 for an entry not yet created.
StoredQ(qt, key) == IF key \in DOMAIN qt THEN qt[key].q_value ELSE 0

\* C20: the save of a Q update stores v + 0.1 * (r + 0.9 * m - v), v being
\* the entry's stored value just before the save, r the reward and m the
\* best value stored for state_after at that moment (0 if none).
C20_BellmanOnStoredValues ==
    [][ \A p \in Procs :
          UpdateSave(p) =>
              LET u == procs[p].upd
              IN qtable'[u.key].q_value =
                     BellmanUpdate(StoredQ(qtable, u.key), u.reward,
                                   get_max_q(qtable, u.state_after)) ]_vars

\* The candidates of the select_action call and their rows.
Candidates ==
    Range(IF rl.available_actions = << >>
          THEN SEMANTIC_ACTIONS ELSE rl.available_actions)

RowOf(a) == get_all_q_values(qtable, rl.state)[a]

\* The visits of the candidates, summed.
TotalVisits ==
    SumVisits(get_all_q_values(qtable, rl.state),
              IF rl.available_actions = << >> THEN SEMANTIC_ACTIONS ELSE rl.available_actions)

\* The chosen action has been tried before although an untried candidate
\* was on offer.
VisitedChosenOver(z) ==
    /\ Called("select_action")
    /\ z \in Candidates
    /\ RowOf(z).visit_count = 0
    /\ RowOf(rl.action).visit_count >= 1

\* C17 as stated: a candidate never tried is chosen before any tried one
\* when the values of both are at most 2.0.
C17_UntriedAlwaysPreferred ==
    \A z \in Range(SEMANTIC_ACTIONS) :
        VisitedChosenOver(z) =>
            ~(RowOf(z).q_value <= 2 * QScale /\ RowOf(rl.action).q_value <= 2 * QScale)

\* C17: with at most 53 visits over the candidates, a tried candidate is
\* chosen over an untried one only if its value is strictly greater.
C17_UntriedPreferredUnlessLowerValue ==
    \A z \in Range(SEMANTIC_ACTIONS) :
        (VisitedChosenOver(z) /\ TotalVisits <= 53) =>
            RowOf(rl.action).q_value > RowOf(z).q_value

\* A tried candidate and an untried one of no lesser value are on offer and
\* the untried one is chosen.
C17_Witness ==
    /\ Called("select_action")
    /\ RowOf(rl.action).visit_count = 0
    /\ \E c \in Candidates :
          /\ RowOf(c).visit_count >= 1
          /\ RowOf(c).q_value <= RowOf(rl.action).q_value

\* ─── The pipeline: errors and context ───────────────────────────────────
\* No row of the store belongs to the lead, and no interaction of the lead
\* carries extracted fields.
NothingWrittenFor(l) ==
    /\ events[l] = << >>
    /\ \A i \in DOMAIN interactions :
          interactions[i].lead = l =>
              /\ ~interactions[i].processed
              /\ interactions[i].detected_intent = None
    /\ \A a \in DOMAIN artifacts : artifacts[a].lead # l
    /\ \A d \in DOMAIN decisions : decisions[d].lead # l
    /\ \A t \in DOMAIN transitions : transitions[t].lead # l

\* C21: process_interaction on an interaction whose lead does not exist
\* ends in the not-found error and has written nothing for that lead; the
\* Q-table is as seeded.
C21_NotFoundWritesNothing ==
    \A l \in Leads \ DOMAIN leads :
        /\ NothingWrittenFor(l)
        /\ qtable = SeededQ
        /\ \A p \in Procs :
              (procs[p].pc = "pi_txn") => interactions[procs[p].anchor].lead # l
        /\ \A k \in DOMAIN pipelineLog :
              pipelineLog[k].lead = l => pipelineLog[k].outcome = "ValueError"

C21_Witness ==
    \E k \in DOMAIN pipelineLog :
        /\ pipelineLog[k].outcome = "ValueError"
        /\ pipelineLog[k].lead \notin DOMAIN leads
        /\ NothingWrittenFor(pipelineLog[k].lead)
        /\ \A p \in Procs : procs[p].pc = "idle"

\* C22: when the extraction service has failed, the interaction carries
\* the minimal record and, once process_interaction is over, the lead's
\* counters are updated and a decision exists for the interaction.
C22_FailureAbsorbedAndDecided ==
    \A e \in DOMAIN pipelineLog :
        pipelineLog[e].absorbed =>
            LET i == pipelineLog[e].interaction
            IN /\ interactions[i].detected_intent = "unclear"
               /\ leads[pipelineLog[e].lead].total_interactions >= 1
               /\ \E d \in DOMAIN decisions : decisions[d].interaction = i

\* The artifacts of a type ever recorded for a lead in a store.
EverRecorded(store, l, t) ==
    { store.artifacts[a] : a \in { k \in DOMAIN store.artifacts :
                                     /\ store.artifacts[k].lead = l
                                     /\ store.artifacts[k].artifact_type = t } }

\* C23: the financial concern level of a PolicyInputs is the highest level
\* over all financial artifacts ever recorded for the lead.
C23_HighestLevelEverRecorded ==
    \A k \in DOMAIN rl.built :
        rl.built[k].inputs.financial_concern_level
            = MaxConcern(EverRecorded(rl.built[k].store, rl.lead, "financial_signals"))

\* C24: the objection topics of a PolicyInputs are the union of the topics
\* of all objection artifacts ever recorded for the lead.
C24_TopicsNeverDropped ==
    \A k \in DOMAIN rl.built :
        rl.built[k].inputs.objection_topics
            = UNION { r.topics : r \in EverRecorded(rl.built[k].store, rl.lead, "objections") }

\* The fields of a PolicyInputs that are read from the store; the one left
\* out, hours_since_last_interaction, is measured against the clock.
StoredFields ==
    { "lead_status", "total_interactions", "total_voice_attempts", "total_sms_attempts",
      "total_email_attempts", "last_interaction_channel", "last_interaction_status",
      "last_interaction_direction", "last_detected_intent", "last_sentiment",
      "preferred_channel", "has_phone", "has_email", "financial_concern_level",
      "has_unaddressed_objections", "objection_topics", "has_scheduling_constraints",
      "has_siblings", "has_pending_decision_makers" }

SameStoredFields(built) ==
    \A j, k \in DOMAIN built :
        built[j].store = built[k].store
            => \A f \in StoredFields : built[j].inputs[f] = built[k].inputs[f]

\* C25: building a PolicyInputs writes nothing to the store, and two builds
\* with no write between them agree in every field read from the store.
C25_BuildReadsOnly ==
    [][ Len(rl'.built) > Len(rl.built)
            => /\ UNCHANGED dbVars
               /\ rl'.built[Len(rl'.built)].store = StoredFor(rl.lead)'
               /\ SameStoredFields(rl'.built) ]_vars

C25_Witness ==
    /\ Len(rl.built) = 2
    /\ rl.built[1].store = rl.built[2].store
    /\ rl.built[1].store.last # 0
    /\ rl.built[1].inputs.hours_since_last_interaction
           # rl.built[2].inputs.hours_since_last_interaction
    /\ rl.built[1].inputs.financial_concern_level # "none"
    /\ rl.built[1].inputs.objection_topics # {}

\* ─── The action brief ───────────────────────────────────────────────────
\* C26: build_action_brief on a semantic action outside the template
\* catalog does not raise; it returns a brief for gentle_nudge built from
\* the gentle_nudge template.
C26_UnknownActionFallsBack ==
    (Called("build_action_brief") /\ rl.semantic_action \notin DOMAIN BRIEF_TEMPLATES)
        => /\ ~Raises(rl.brief)
           /\ rl.brief.semantic_action = "gentle_nudge"
           /\ rl.brief.template = "gentle_nudge"

\* The channels a lead can be reached on.
Reachable(inputs) ==
    (IF inputs.has_phone THEN {"voice", "sms"} ELSE {})
    \cup (IF inputs.has_email THEN {"email"} ELSE {})

\* C27: for a lead with at least one contact method the resolved channel
\* is none or a channel the lead can be reached on, and channel_switch
\* resolves to a reachable channel with the fewest attempts.
C27_ChannelIsReachable ==
    (Called("determine_channel") /\ Reachable(rl.inputs) # {})
        => /\ rl.channel \in {"none"} \cup Reachable(rl.inputs)
           /\ rl.semantic_action = "channel_switch"
                => \A c \in Reachable(rl.inputs) :
                      rl.inputs["total_" \o rl.channel \o "_attempts"]
                          <= rl.inputs["total_" \o c \o "_attempts"]

\* ─── The batcher: rechecks and buffered rows ────────────────────────────
\* The thread of a lead is due at the current time.
Due(l) ==
    /\ Unflushed(l) # {}
    /\ should_flush(Cardinality(Unflushed(l)), Oldest(Unflushed(l)), Newest(Unflushed(l)), now)

\* C28: the number of queued rechecks of a lead changes only when a message
\* arrives (one more) or when a recheck ends on an empty thread or starts a
\* flush of a due thread (one less); a recheck of a thread not yet due
\* leaves one recheck queued.  With every queued task run and time passing,
\* a thread with a queued recheck is flushed and its rechecks run out.
C28_RecheckEndsInFlush ==
    /\ [][ \A l \in BatchLeads :
             /\ checkTasks'[l] > checkTasks[l]
                  => checkTasks'[l] = checkTasks[l] + 1 /\ Len(smsBuffer') = Len(smsBuffer) + 1
             /\ checkTasks'[l] < checkTasks[l]
                  => /\ checkTasks'[l] = checkTasks[l] - 1
                     /\ \/ Unflushed(l) = {} /\ UNCHANGED procs
                        \/ /\ Due(l)
                           /\ \E p \in Procs : /\ procs[p].pc = "idle"
                                               /\ procs'[p].pc = "flush_lock"
                                               /\ procs'[p].lead = l ]_vars
    /\ \A l \in BatchLeads :
          (checkTasks[l] > 0) ~> (checkTasks[l] = 0 /\ Unflushed(l) = {})

C28_Witness ==
    /\ now > QUIET_PERIOD
    /\ \E f \in DOMAIN flushLog :
          /\ flushLog[f].origin = "check"
          /\ Cardinality(flushLog[f].transcript) = 2
    /\ \A l \in BatchLeads : checkTasks[l] = 0 /\ Unflushed(l) = {}

\* Pipeline runs on an interaction that come from a flush: those logged and
\* those still under way.
FlushRuns(i) ==
    Cardinality({ e \in DOMAIN pipelineLog :
                    pipelineLog[e].interaction = i /\ pipelineLog[e].origin # "api" })
    + Cardinality({ p \in Procs : procs[p].pc \in {"pi_extract", "pi_txn"}
                                  /\ procs[p].anchor = i /\ procs[p].origin # "api" })

\* The interaction of the row that arrived last among the given rows.
AnchorOf(rows) == smsBuffer[LastRow(rows)].interaction

\* Each flush runs the pipeline once, on the interaction of the last
\* message of its transcript, and on no other interaction.
OneRunOnTheLast ==
    /\ \A f \in DOMAIN flushLog :
          /\ flushLog[f].transcript # {}
          /\ flushLog[f].anchor = AnchorOf(flushLog[f].transcript)
          /\ FlushRuns(flushLog[f].anchor) = 1
    /\ \A b \in DOMAIN smsBuffer :
          (\A f \in DOMAIN flushLog : flushLog[f].anchor # smsBuffer[b].interaction)
              => /\ FlushRuns(smsBuffer[b].interaction) = 0
                 /\ ~interactions[smsBuffer[b].interaction].processed

\* C29: a flush runs the pipeline exactly once, on a transcript of all the
\* messages of the lead it flushes, for the interaction of the last of
\* them; no other message's interaction is processed.
C29_OneRunOnAllFlushed ==
    /\ OneRunOnTheLast
    /\ \A f \in DOMAIN flushLog : flushLog[f].transcript = flushLog[f].marked

\* C30: a buffered message is created unflushed; afterwards only its
\* flushed flag changes, once, from false to true; no step of the batcher
\* removes a buffered message.
C30_FlushedOnceNeverDeleted ==
    [][ /\ Len(smsBuffer') >= Len(smsBuffer)
        /\ \A b \in DOMAIN smsBuffer' :
              IF b \in DOMAIN smsBuffer
              THEN \/ smsBuffer'[b] = smsBuffer[b]
                   \/ /\ ~smsBuffer[b].flushed
                      /\ smsBuffer'[b] = [smsBuffer[b] EXCEPT !.flushed = TRUE]
              ELSE ~smsBuffer'[b].flushed ]_vars

C30_Witness ==
    /\ Len(smsBuffer) = 2
    /\ Len(flushLog) = 2
    /\ \A b \in DOMAIN smsBuffer : smsBuffer[b].flushed
    /\ \A p \in Procs : procs[p].pc = "idle"

\* A step in which thread p ends a flush attempt that found nothing.
EmptyFlushBy(p) ==
    /\ procs[p].pc = "flush_lock"
    /\ procs'[p].pc # "flush_lock"
    /\ Unflushed(procs[p].lead) = {}

\* C31: a flush attempt that finds no unflushed message of its lead returns
\* without running the pipeline and leaves every stored table as it was; a
\* flush of one lead leaves the buffered messages of every other lead as
\* they were.
C31_EmptyFlushIsNoOp ==
    [][ /\ \A p \in Procs :
              EmptyFlushBy(p) => /\ UNCHANGED << dbVars, flushLog, pipelineLog, checkTasks >>
                                 /\ procs'[p] = AfterPipeline(procs[p])
        /\ Len(flushLog') > Len(flushLog)
              => \A b \in DOMAIN smsBuffer :
                    smsBuffer[b].lead # flushLog'[Len(flushLog')].lead
                        => smsBuffer'[b] = smsBuffer[b] ]_vars

\* Two urgent messages of a lead, both marked by the first request's flush:
\* the second request's flush has found nothing and has returned.
C31_Witness ==
    /\ Len(smsBuffer) = 2
    /\ \A b \in DOMAIN smsBuffer : smsBuffer[b].is_urgent /\ smsBuffer[b].lead = "l1"
    /\ Len(flushLog) = 1
    /\ flushLog[1].marked = {1, 2}
    /\ Len(pipelineLog) = 1
    /\ \A p \in Procs : procs[p].pc = "idle"

\* ─── Selection: ties and the returned value ─────────────────────────────
\* The UCB score of a candidate on the stored table.
ScoreOf(a) == RowOf(a).q_value + exploration(TotalVisits, RowOf(a).visit_count)

\* The candidates whose score no candidate exceeds.
TopCandidates == { a \in Candidates : \A b \in Candidates : ScoreOf(b) <= ScoreOf(a) }

\* The place of an action in the catalog.
CatalogIndex(a) == CHOOSE k \in DOMAIN SEMANTIC_ACTIONS : SEMANTIC_ACTIONS[k] = a

\* C32: select_action returns, of the candidates with the highest score,
\* the one that comes first in the catalog, together with that action's
\* stored value (0 if it has no entry), not its score.
C32_FirstOfTheBestRawValue ==
    Called("select_action") =>
        /\ rl.action \in TopCandidates
        /\ \A a \in TopCandidates : CatalogIndex(rl.action) <= CatalogIndex(a)
        /\ rl.q_value = RowOf(rl.action).q_value

\* Several candidates share the highest score, one of them with a stored
\* value that differs from its score.
C32_Witness ==
    /\ Called("select_action")
    /\ Cardinality(TopCandidates) >= 2
    /\ rl.q_value # ScoreOf(rl.action)
    /\ transitions # << >>

\* ─── The Q-table and its log ────────────────────────────────────────────
KeyOf(t) == << transitions[t].state_before, transitions[t].action_taken >>

\* The value an entry has before its first update: its seed, or 0 when
\* get_or_create makes it.
FirstValue(key) == IF key \in DOMAIN SeededQ THEN SeededQ[key].q_value ELSE NewQEntry.q_value

\* The updates of the same entry before update t.
EarlierOf(t) == { u \in UpdatesOf(KeyOf(t)) : u < t }

Latest(ts) == CHOOSE t \in ts : \A u \in ts : u <= t

\* C33: after updates run one at a time, every entry's visit count is the
\* number of logged transitions with its state and action, its cumulative
\* reward is the sum of their rewards, and every logged transition carries
\* the value the entry had right before and right after that update.
C33_TableAgreesWithLog ==
    /\ \A key \in DOMAIN qtable :
          /\ qtable[key].visit_count = Cardinality(UpdatesOf(key))
          /\ qtable[key].total_reward = SumRewards(transitions, key)
          /\ qtable[key].q_value = IF UpdatesOf(key) = {} THEN FirstValue(key)
                                   ELSE transitions[Latest(UpdatesOf(key))].q_value_after
    /\ \A t \in DOMAIN transitions :
          /\ KeyOf(t) \in DOMAIN qtable
          /\ transitions[t].q_value_before =
                IF EarlierOf(t) = {} THEN FirstValue(KeyOf(t))
                ELSE transitions[Latest(EarlierOf(t))].q_value_after

C33_Witness ==
    /\ Len(transitions) >= 3
    /\ \E t \in DOMAIN transitions : EarlierOf(t) # {}
    /\ \E t, u \in DOMAIN transitions : KeyOf(t) # KeyOf(u)
    /\ \E t \in DOMAIN transitions : transitions[t].reward # 0

\* C34: a selection leaves the stored Q-table as it is and reads an action
\* without an entry as value 0; an entry is created or changed only by an
\* update, which logs a transition for that very entry.
C34_OnlyUpdatesWrite ==
    [][ /\ rl' # rl
            => /\ qtable' = qtable
               /\ << rl'.state, rl'.action >> \notin DOMAIN qtable' => rl'.q_value = 0
        /\ \A key \in DOMAIN qtable' :
              (key \notin DOMAIN qtable \/ qtable'[key] # qtable[key])
                  => /\ Len(transitions') = Len(transitions) + 1
                     /\ << transitions'[Len(transitions')].state_before,
                           transitions'[Len(transitions')].action_taken >> = key
        /\ DOMAIN qtable \subseteq DOMAIN qtable' ]_vars

\* A selection has returned an action that has no stored entry, on a table
\* that updates have written to.
C34_Witness ==
    /\ Called("select_action")
    /\ << rl.state, rl.action >> \notin DOMAIN qtable
    /\ transitions # << >>
    /\ DOMAIN qtable # DOMAIN SeededQ

\* ─── Locks and external calls ───────────────────────────────────────────
\* A step in which thread p calls the extraction service and gets its
\* answer (or its failure).
ExtractionCallBy(p) == procs[p].pc = "pi_extract" /\ procs'[p].pc = "pi_txn"

\* C35: the extraction call is made by a thread that holds no row lock and
\* returns before the thread takes one; the rows a flush has locked are
\* released when the pipeline is invoked, so row locks are held only
\* between a flush's read and its update.
C35_NoCallUnderLock ==
    [][ \A p \in Procs :
          /\ ExtractionCallBy(p) => procs[p].locks = {} /\ procs'[p].locks = {}
          /\ procs'[p].locks # {} => procs'[p].pc = "flush_commit"
          /\ procs'[p].pc \in {"pi_extract", "pi_txn"} => procs'[p].locks = {} ]_vars

\* A flush has locked rows, released them and called the extraction
\* service for its transcript.
C35_Witness ==
    \E p \in Procs :
        /\ procs[p].pc = "pi_txn"
        /\ procs[p].origin # "api"
        /\ procs[p].locks = {}
        /\ \E f \in DOMAIN flushLog : flushLog[f].anchor = procs[p].anchor

\* ─── The lead status ────────────────────────────────────────────────────
Derived == rl.fn = "derive_lead_status" /\ rl.steps > 0

Funnel == {"new", "contacted", "interested", "trial"}

RetentionStatuses == {"active", "at_risk", "inactive"}

\* C36: an interaction applied to a lead in the acquisition funnel leaves
\* it at its stage, moves it to a later stage, or makes it declined.
C36_NoFunnelRegression ==
    (Derived /\ rl.status_before \in Funnel) =>
        \/ rl.lead_status = "declined"
        \/ /\ rl.lead_status \in Range(acquisition_order)
           /\ AcquisitionIndex(rl.lead_status) >= AcquisitionIndex(rl.status_before)

\* A lead on trial asks for information: the proposal, contacted, is an
\* earlier stage and the lead stays on trial.
C36_Witness ==
    /\ Derived
    /\ rl.status_before = "trial"
    /\ rl.intent = "requesting_info"
    /\ rl.lead_status = "trial"

\* C37: an interaction makes a lead active, at_risk or inactive only if
\* the lead was enrolled, active, at_risk or inactive before it.
C37_RetentionOnlyAfterEnrolment ==
    (Derived /\ rl.lead_status \in RetentionStatuses) =>
        rl.status_before \in {"enrolled"} \cup RetentionStatuses

C37_Witness ==
    /\ Derived
    /\ rl.status_before = "enrolled"
    /\ rl.lead_status = "active"

\* C38: a lead that interactions have taken to trial has an interaction
\* that takes it on to enrolled.
C38_TrialCanEnrol ==
    (Derived /\ rl.status_before = "interested" /\ rl.lead_status = "trial") =>
        \E intent \in IntentInputs, interaction_status \in InteractionStatuses :
            derive_lead_status("trial", intent, interaction_status) = "enrolled"

\* ─── The attempt counters ───────────────────────────────────────────────
\* The interactions of lead l stored as processed (interaction.processed)
\* that no thread is still in the pipeline for.
ProcessedFor(l) ==
    { i \in DOMAIN interactions :
        /\ interactions[i].lead = l
        /\ interactions[i].processed
        /\ \A p \in Procs : ~(procs[p].pc = "pi_txn" /\ procs[p].anchor = i) }

====
